---- MODULE Spec2Model ----
(***************************************************************************)
(* A model of backend/server.py: the send_message orchestrator, the token  *)
(* ledger (deduct_tokens) and the handlers that prepare its state.         *)
(*                                                                         *)
(* Text is modelled as a sequence of tokens, each standing for a run of    *)
(* characters of the reply:                                                *)
(*   "FJ"  the fence marker ```json          "F"  a bare fence ```         *)
(*   "WS"  one whitespace character          "P"  one prose character      *)
(*   "J"   the JSON text of the payload      "B"  text  {"action": oops    *)
(*   "JT"  the JSON text of the payload without its last character         *)
(*   "E"   the prefix of the synthesized error reply (line 935)            *)
(* The payload is what json.loads returns for the text "J".                *)
(***************************************************************************)
EXTENDS Integers, Sequences, FiniteSets, TLC

\* ---------------------------------------------------------------- bounds
\* send_message requests issued in one behaviour
MaxReq == 2
\* longest reply explored exhaustively by SpecParse
MaxReplyLen == 3
\* most slides of a template and most slide entries of a payload (SpecDeck)
MaxSlides == 2
MaxEntries == 3
\* uploads in one behaviour of SpecFiles
MaxUploads == 2

\* ------------------------------------------------------------- constants
INITIAL_TOKENS == 300
ADMIN_TOKENS == 999999
ADMIN_EMAIL == "mishkasladkolapka@gmail.com"

TOKEN_COSTS ==
  [pptx_create |-> 65, pptx_edit |-> 10,
   docx_create |-> 35, docx_edit |-> 6,
   xlsx_create |-> 40, xlsx_edit |-> 7,
   analyze |-> 5]

\* Python's None for an identifier (ids are positive) and for a name or path
NoId == 0
None == "None"

\* ------------------------------------------------------------------ text
Sub(s, a, b) == IF a > b THEN <<>> ELSE SubSeq(s, a, b)

IsSpace(t) == t = "WS"

RECURSIVE LStrip(_)
LStrip(s) == IF s # <<>> /\ IsSpace(Head(s)) THEN LStrip(Tail(s)) ELSE s

RECURSIVE RStrip(_)
RStrip(s) ==
  IF s # <<>> /\ IsSpace(s[Len(s)]) THEN RStrip(Sub(s, 1, Len(s) - 1)) ELSE s

\* str.strip()
Strip(s) == RStrip(LStrip(s))

\* the text "```" occurs in both fence tokens
HasBackticks(t) == t \in {"FJ", "F"}

\* str.find: the least position >= from whose token satisfies the test, 0 for
\* Python's -1 (positions here are 1-based)
FindJsonFence(s) ==
  IF \E i \in 1..Len(s) : s[i] = "FJ"
  THEN CHOOSE i \in 1..Len(s) : s[i] = "FJ" /\ \A j \in 1..(i - 1) : s[j] # "FJ"
  ELSE 0

FindBackticks(s, from) ==
  IF \E i \in from..Len(s) : HasBackticks(s[i])
  THEN CHOOSE i \in from..Len(s) :
         HasBackticks(s[i]) /\ \A j \in from..(i - 1) : ~HasBackticks(s[j])
  ELSE 0

\* s[:-1], the slice that drops the last character: a one-character token goes,
\* the JSON text loses its closing brace
DropLastChar(s) ==
  IF s = <<>> THEN <<>>
  ELSE LET front == Sub(s, 1, Len(s) - 1)
           last == s[Len(s)]
       IN  IF last = "J" THEN front \o <<"JT">>
           ELSE IF last \in {"B", "JT"} THEN front \o <<last>>
           ELSE front

\* '"action"' in text
HasActionMarker(s, payload) ==
  \E i \in 1..Len(s) :
     \/ s[i] = "B"
     \/ s[i] \in {"J", "JT"} /\ payload.kind = "object" /\ payload.action # "absent"

\* text.startswith('{')
StartsWithBrace(s, payload) ==
  /\ s # <<>>
  /\ \/ s[1] = "B"
     \/ s[1] \in {"J", "JT"} /\ payload.kind = "object"

\* lines 941-950: the candidate payload text, <<>> when json_str stays falsy
JsonStrFenced(ai_response) ==
  LET json_start == FindJsonFence(ai_response) + 1
      json_end == FindBackticks(ai_response, json_start)
  IN  Strip(IF json_end = 0
            THEN DropLastChar(Sub(ai_response, json_start, Len(ai_response)))
            ELSE Sub(ai_response, json_start, json_end - 1))

JsonStr(ai_response, payload) ==
  IF FindJsonFence(ai_response) # 0 THEN JsonStrFenced(ai_response)
  ELSE IF StartsWithBrace(Strip(ai_response), payload)
          /\ HasActionMarker(ai_response, payload)
       THEN Strip(ai_response)
       ELSE <<>>

\* JsonLoads that decodes the leading value and ignores what follows it
JsonLoadsLenient(json_str, payload) ==
  IF json_str # <<>> /\ Head(json_str) = "J" THEN [ok |-> TRUE, value |-> payload]
  ELSE [ok |-> FALSE, value |-> payload]

\* json.loads: exactly the payload's text parses, anything else raises
\* JSONDecodeError
JsonLoads(json_str, payload) ==
  IF json_str = <<"J">> THEN [ok |-> TRUE, value |-> payload]
  ELSE [ok |-> FALSE, value |-> payload]

\* ------------------------------------------------------- action dispatch
KnownActions == {"create_excel", "create_word", "create_pptx"}

\* ActionCost with the two prices of a word document exchanged
ActionCostSwapped(action, is_edit) ==
  CASE action = "create_excel" ->
         IF is_edit THEN TOKEN_COSTS.xlsx_edit ELSE TOKEN_COSTS.xlsx_create
    [] action = "create_word" ->
         IF is_edit THEN TOKEN_COSTS.docx_create ELSE TOKEN_COSTS.docx_edit
    [] action = "create_pptx" ->
         IF is_edit THEN TOKEN_COSTS.pptx_edit ELSE TOKEN_COSTS.pptx_create

\* lines 964, 970, 976: the price of a known action
ActionCost(action, is_edit) ==
  CASE action = "create_excel" ->
         IF is_edit THEN TOKEN_COSTS.xlsx_edit ELSE TOKEN_COSTS.xlsx_create
    [] action = "create_word" ->
         IF is_edit THEN TOKEN_COSTS.docx_edit ELSE TOKEN_COSTS.docx_create
    [] action = "create_pptx" ->
         IF is_edit THEN TOKEN_COSTS.pptx_edit ELSE TOKEN_COSTS.pptx_create

\* lines 965, 971, 977: the extension of generated_filename
Extension(action) ==
  CASE action = "create_excel" -> "xlsx"
    [] action = "create_word" -> "docx"
    [] action = "create_pptx" -> "pptx"

\* The shapes of the payload's data:
\*   "empty_dict"  {}            "list"  a JSON array
\*   "num_title"   {"title": 5}
\* Whether the renderer raises before it saves the document: data['title'][:31]
\* of a number (line 345), data.get of a list (lines 424, 446). The excel and
\* word renderers only test membership ('title' in data), which a list allows.
RendererRaises(action, data) ==
  \/ action = "create_excel" /\ data = "num_title"
  \/ action = "create_pptx" /\ data = "list"

\* Whether the display name's derivation raises after a render that returned:
\* data.get of a list (lines 967, 973), a number + '.docx' (line 973), a
\* number[:50] (line 986)
NameRaises(action, data) ==
  \/ action \in {"create_excel", "create_word"} /\ data = "list"
  \/ data = "num_title"

\* lines 967, 973, 988: the display name of a payload without a title
GeneratedFileName(action) ==
  CASE action = "create_excel" -> "Tablitsa.xlsx"
    [] action = "create_word" -> "Dokument.docx"
    [] action = "create_pptx" -> "Prezentatsiya.pptx"

\* InsufficientBalance applied to every actor
InsufficientBalanceForAll(user_is_admin, balance, tokens_used) ==
  balance < tokens_used

\* line 991: the balance gate on the snapshot of the authenticated user
InsufficientBalance(user_is_admin, balance, tokens_used) ==
  ~user_is_admin /\ balance < tokens_used

\* What lines 937-1029 compute from the reply up to the first await or raise.
\*   outcome  "none"   no file: the request goes on to charging
\*            "file"   a document was rendered and its record is to be inserted
\*            "402"    HTTPException(402) leaves the handler
\*   saved    whether the renderer wrote GENERATED_DIR/generated_<id>.<ext>
\*   uuid_drawn  whether line 960 was reached and drew a uuid4
NoAction(tokens_used, file_id, saved, uuid_drawn) ==
  [outcome |-> "none", tokens_used |-> tokens_used,
   generated_file_id |-> file_id, generated_file_name |-> None,
   saved |-> saved, is_edit |-> FALSE, use_template |-> FALSE, ext |-> None,
   uuid_drawn |-> uuid_drawn, json_str |-> <<>>]

\* DispatchKnown whose handler of a render failure keeps generated_file_id
DispatchKnownKeepsId(action_data, user_is_admin, balance, new_id) ==
  LET action == action_data.action
      data == action_data.data
      tokens_used == ActionCost(action, action_data.is_edit)
  IN  IF RendererRaises(action, data)
      THEN NoAction(tokens_used, new_id, FALSE, TRUE)
      ELSE IF NameRaises(action, data)
      THEN NoAction(tokens_used, new_id, TRUE, TRUE)
      ELSE [outcome |-> IF InsufficientBalance(user_is_admin, balance, tokens_used)
                        THEN "402" ELSE "file",
            tokens_used |-> tokens_used,
            generated_file_id |-> new_id,
            generated_file_name |-> GeneratedFileName(action),
            saved |-> TRUE, is_edit |-> action_data.is_edit,
            use_template |-> action_data.use_template,
            ext |-> Extension(action), uuid_drawn |-> TRUE, json_str |-> <<>>]

\* lines 963-995 for a known action: the price, the renderer, the display
\* name, then the balance gate
DispatchKnown(action_data, user_is_admin, balance, new_id) ==
  LET action == action_data.action
      is_edit == action_data.is_edit
      data == action_data.data
      tokens_used == ActionCost(action, is_edit)
  IN  IF RendererRaises(action, data)
      \* except Exception (line 1026): both names are reset, tokens_used is not
      THEN NoAction(tokens_used, NoId, FALSE, TRUE)
      ELSE IF NameRaises(action, data)
      THEN NoAction(tokens_used, NoId, TRUE, TRUE)
      ELSE [outcome |-> IF InsufficientBalance(user_is_admin, balance, tokens_used)
                        THEN "402" ELSE "file",
            tokens_used |-> tokens_used,
            generated_file_id |-> new_id,
            generated_file_name |-> GeneratedFileName(action),
            saved |-> TRUE, is_edit |-> is_edit,
            use_template |-> action_data.use_template,
            ext |-> Extension(action), uuid_drawn |-> TRUE, json_str |-> <<>>]

\* Dispatch whose chain ends in an else that renders a table
DispatchElse(action_data, user_is_admin, balance, new_id) ==
  IF action_data.action \notin KnownActions
  THEN DispatchKnown([action_data EXCEPT !.action = "create_excel"],
                     user_is_admin, balance, new_id)
  ELSE DispatchKnown(action_data, user_is_admin, balance, new_id)

\* lines 955-990: no branch of the if/elif chain takes an unknown action, so
\* file_path stays None while line 960 has already set generated_file_id
Dispatch(action_data, user_is_admin, balance, new_id) ==
  IF action_data.action \notin KnownActions
  THEN NoAction(TOKEN_COSTS.analyze, new_id, FALSE, TRUE)
  ELSE DispatchKnown(action_data, user_is_admin, balance, new_id)

\* lines 937-1029
ActionBlock(json_str, payload, user_is_admin, balance, new_id) ==
  LET parsed == JsonLoads(json_str, payload)
  IN  IF json_str = <<>> THEN NoAction(TOKEN_COSTS.analyze, NoId, FALSE, FALSE)
      \* except json.JSONDecodeError (line 1022)
      ELSE IF ~parsed.ok THEN NoAction(TOKEN_COSTS.analyze, NoId, FALSE, FALSE)
      \* a JSON array has no .get: AttributeError at line 955
      ELSE IF parsed.value.kind # "object"
      THEN NoAction(TOKEN_COSTS.analyze, NoId, FALSE, FALSE)
      ELSE Dispatch(parsed.value, user_is_admin, balance, new_id)

ProcessReply(ai_response, payload, user_is_admin, balance, new_id) ==
  LET json_str == JsonStr(ai_response, payload)
  IN  [ActionBlock(json_str, payload, user_is_admin, balance, new_id)
         EXCEPT !.json_str = json_str]

\* lines 1012-1020: the reply after a render, the confirmation sentence as tokens
ConfirmedReply(ai_response, file_name, template_note, user_is_admin) ==
  LET fence == FindJsonFence(ai_response)
      kept == IF fence # 0 THEN Strip(Sub(ai_response, 1, fence - 1)) ELSE <<>>
  IN  kept \o <<"CREATED", file_name>>
           \o (IF template_note THEN <<"TEMPLATE_NOTE">> ELSE <<>>)
           \o (IF user_is_admin THEN <<>> ELSE <<"TOKEN_NOTE">>)

\* ----------------------------------------------------------------- state
VARIABLES
  users,      \* db.users: user id -> [email, balance, is_admin, transactions]
  chats,      \* db.chats: chat id -> [user_id, updated_at]
  messages,   \* db.messages in insertion order
  files,      \* db.files in insertion order
  disk,       \* the ids of the documents written to GENERATED_DIR
  next_id,    \* the next uuid4 of a generated file
  llm,        \* what the language-model call does in this behaviour
  req,        \* the locals of each send_message request
  call        \* the locals of a deduct_tokens call made on its own (SpecLedger)

vars == <<users, chats, messages, files, disk, next_id, llm, req, call>>

Requests == 1..MaxReq
UserIds == {"u_user", "u_admin"}
ChatIds == {"c_user", "c_admin"}

\* line 194
is_admin(email) == email = ADMIN_EMAIL

\* lines 529-545: the record register inserts; emails are stored lowercased.
\* A transaction's req is history: the request whose step pushed it (0: none).
NewUser(email) ==
  [email |-> email,
   balance |-> IF is_admin(email) THEN ADMIN_TOKENS ELSE INITIAL_TOKENS,
   is_admin |-> is_admin(email),
   transactions |->
     <<[amount |-> IF is_admin(email) THEN ADMIN_TOKENS ELSE INITIAL_TOKENS,
        req |-> 0]>>]

\* tokens_used of a message stored without that key
NoTokens == -1

IdleReq ==
  [pc |-> "idle", user_id |-> None, chat_id |-> None,
   balance |-> 0, user_is_admin |-> FALSE, email |-> None,
   reply |-> <<>>, ai_response |-> <<>>, llm_failed |-> FALSE, json_str |-> <<>>,
   tokens_used |-> 0, generated_file_id |-> NoId, generated_file_name |-> None,
   is_edit |-> FALSE, use_template |-> FALSE, ext |-> None,
   pptx_template_path |-> NoId, rendered |-> NoId,
   status |-> 0, deducted |-> 0, charge_ok |-> FALSE]

IdleCall ==
  [pc |-> "idle", user_id |-> None, amount |-> 0, user_email |-> None,
   result |-> FALSE, before |-> <<>>]

\* ---------------------------------------------------------- deduct_tokens
\* DeductDecision that refuses a balance equal to the amount
DeductDecisionStrict(user_id, amount, user_email) ==
  IF user_email # None /\ is_admin(user_email) THEN "exempt"
  ELSE IF user_id \notin DOMAIN users \/ users[user_id].balance <= amount
       THEN "refused"
       ELSE "charge"

\* lines 199-204: "exempt" returns True at once, "refused" returns False,
\* "charge" goes on to update_one
DeductDecision(user_id, amount, user_email) ==
  IF user_email # None /\ is_admin(user_email) THEN "exempt"
  ELSE IF user_id \notin DOMAIN users \/ users[user_id].balance < amount
       THEN "refused"
       ELSE "charge"

\* lines 206-219: $inc and $push on the matching document, none if it is gone
DeductUpdate(user_id, amount, r) ==
  [u \in DOMAIN users |->
     IF u = user_id
     THEN [users[u] EXCEPT
             !.balance = @ - amount,
             !.transactions = Append(@, [amount |-> 0 - amount, req |-> r])]
     ELSE users[u]]

\* ----------------------------------------------------------- send_message
\* The handler runs from one await to the next; a step is the database
\* operation awaited and the code that follows it up to the next await.
Set(r, fields) == req' = [req EXCEPT ![r] = fields]

\* lines 172-183: the bearer token's user is read, and kept for the request
get_current_user(r, u, c) ==
  /\ req[r].pc = "idle"
  /\ u \in DOMAIN users
  /\ Set(r, [req[r] EXCEPT !.pc = "find_chat", !.user_id = u, !.chat_id = c,
                           !.balance = users[u].balance,
                           !.user_is_admin = users[u].is_admin,
                           !.email = users[u].email])
  /\ UNCHANGED <<users, chats, messages, files, disk, next_id, llm, call>>

\* lines 850-860: the chat of this user, then the gate on the analysis cost
find_chat(r) ==
  /\ req[r].pc = "find_chat"
  /\ LET found == req[r].chat_id \in DOMAIN chats
                  /\ chats[req[r].chat_id].user_id = req[r].user_id
     IN  IF ~found
         THEN Set(r, [req[r] EXCEPT !.pc = "done", !.status = 404])
         ELSE IF InsufficientBalance(req[r].user_is_admin, req[r].balance,
                                     TOKEN_COSTS.analyze)
         THEN Set(r, [req[r] EXCEPT !.pc = "done", !.status = 402])
         ELSE Set(r, [req[r] EXCEPT !.pc = "insert_user_msg"])
  /\ UNCHANGED <<users, chats, messages, files, disk, next_id, llm, call>>

\* lines 864-872
insert_user_msg(r) ==
  /\ req[r].pc = "insert_user_msg"
  /\ messages' = Append(messages,
       [chat_id |-> req[r].chat_id, role |-> "user", content |-> <<"U">>,
        file_id |-> NoId, file_name |-> None, tokens_used |-> NoTokens,
        req |-> r])
  /\ Set(r, [req[r] EXCEPT !.pc = "find_files"])
  /\ UNCHANGED <<users, chats, files, disk, next_id, llm, call>>

\* lines 874, 879-885: the uploaded slide deck of the chat, the last of its
\* first 10 files
TemplateOf(chat_id) ==
  LET mine == SelectSeq(files, LAMBDA f : f.chat_id = chat_id)
      first10 == Sub(mine, 1, IF Len(mine) < 10 THEN Len(mine) ELSE 10)
      decks == SelectSeq(first10,
                         LAMBDA f : f.file_type = "pptx" /\ ~f.is_generated)
  IN  IF decks = <<>> THEN NoId ELSE decks[Len(decks)].id

find_files(r) ==
  /\ req[r].pc = "find_files"
  /\ Set(r, [req[r] EXCEPT !.pc = "find_messages",
                           !.pptx_template_path = TemplateOf(req[r].chat_id)])
  /\ UNCHANGED <<users, chats, messages, files, disk, next_id, llm, call>>

\* lines 875-876
find_messages(r) ==
  /\ req[r].pc = "find_messages"
  /\ Set(r, [req[r] EXCEPT !.pc = "llm"])
  /\ UNCHANGED <<users, chats, messages, files, disk, next_id, llm, call>>

\* lines 931-935: the reply, or the error text behind its fixed prefix
Reply == IF llm.raises THEN <<"E">> \o llm.text ELSE llm.text

\* AfterAction that never charges
AfterActionNoCharge(r) == "insert_ai"

\* after the action block: line 1031 charges everyone but an admin
AfterAction(r) == IF req[r].user_is_admin THEN "insert_ai" ELSE "deduct_find"

\* lines 917-1029: the model call returns or raises, then the reply is
\* searched for an action, the action rendered and the balance gate applied
llm_call(r) ==
  /\ req[r].pc = "llm"
  /\ LET out == ProcessReply(Reply, llm.payload, req[r].user_is_admin,
                             req[r].balance, next_id)
         locals == [req[r] EXCEPT
                      !.reply = Reply, !.ai_response = Reply,
                      !.llm_failed = llm.raises,
                      !.json_str = out.json_str,
                      !.tokens_used = out.tokens_used,
                      !.generated_file_id = out.generated_file_id,
                      !.generated_file_name = out.generated_file_name,
                      !.is_edit = out.is_edit,
                      !.use_template = out.use_template,
                      !.ext = out.ext,
                      !.rendered = IF out.saved THEN next_id ELSE NoId]
     IN  /\ next_id' = IF out.uuid_drawn THEN next_id + 1 ELSE next_id
         /\ disk' = IF out.saved THEN disk \cup {next_id} ELSE disk
         /\ Set(r, CASE out.outcome = "402" ->
                          [locals EXCEPT !.pc = "done", !.status = 402]
                     [] out.outcome = "file" ->
                          [locals EXCEPT !.pc = "insert_file"]
                     [] out.outcome = "none" ->
                          [locals EXCEPT !.pc = AfterAction(r)])
  /\ UNCHANGED <<users, chats, messages, files, llm, call>>

\* lines 997-1020: the file record, then the reply rewritten
insert_file(r) ==
  /\ req[r].pc = "insert_file"
  /\ files' = Append(files,
       [id |-> req[r].generated_file_id, chat_id |-> req[r].chat_id,
        user_id |-> req[r].user_id, filename |-> req[r].generated_file_name,
        file_type |-> req[r].ext, is_generated |-> TRUE, req |-> r])
  /\ Set(r, [req[r] EXCEPT
               !.pc = AfterAction(r),
               !.ai_response =
                  ConfirmedReply(req[r].ai_response, req[r].generated_file_name,
                                 req[r].use_template
                                   /\ req[r].pptx_template_path # NoId,
                                 req[r].user_is_admin)])
  /\ UNCHANGED <<users, chats, messages, disk, next_id, llm, call>>

\* lines 1032, 199-204: deduct_tokens up to its update
deduct_find(r) ==
  /\ req[r].pc = "deduct_find"
  /\ LET d == DeductDecision(req[r].user_id, req[r].tokens_used, req[r].email)
     IN  Set(r, [req[r] EXCEPT
                   !.pc = IF d = "charge" THEN "deduct_update" ELSE "insert_ai",
                   !.charge_ok = d # "refused"])
  /\ UNCHANGED <<users, chats, messages, files, disk, next_id, llm, call>>

\* lines 206-220
deduct_update(r) ==
  /\ req[r].pc = "deduct_update"
  /\ users' = DeductUpdate(req[r].user_id, req[r].tokens_used, r)
  /\ Set(r, [req[r] EXCEPT !.pc = "insert_ai",
                           !.deducted = users[req[r].user_id].balance
                                        - users'[req[r].user_id].balance])
  /\ UNCHANGED <<chats, messages, files, disk, next_id, llm, call>>

\* lines 1034-1045
insert_ai(r) ==
  /\ req[r].pc = "insert_ai"
  /\ messages' = Append(messages,
       [chat_id |-> req[r].chat_id, role |-> "assistant",
        content |-> req[r].ai_response,
        file_id |-> req[r].generated_file_id,
        file_name |-> req[r].generated_file_name,
        tokens_used |-> IF req[r].user_is_admin THEN 0 ELSE req[r].tokens_used,
        req |-> r])
  /\ Set(r, [req[r] EXCEPT !.pc = "update_chat"])
  /\ UNCHANGED <<users, chats, files, disk, next_id, llm, call>>

\* lines 1047-1058: the chat's updated_at (the request's number stands for
\* the time), then the response
update_chat(r) ==
  /\ req[r].pc = "update_chat"
  /\ chats' = [c \in DOMAIN chats |->
                 IF c = req[r].chat_id
                 THEN [chats[c] EXCEPT !.updated_at = r] ELSE chats[c]]
  /\ Set(r, [req[r] EXCEPT !.pc = "done", !.status = 200])
  /\ UNCHANGED <<users, messages, files, disk, next_id, llm, call>>

\* ------------------------------------------------------ admin_update_user
\* lines 653-669 with a balance: $set, the transaction list untouched
admin_update_user(user_id, balance) ==
  /\ user_id \in DOMAIN users
  /\ users[user_id].balance # balance
  /\ users' = [users EXCEPT ![user_id].balance = balance]
  /\ UNCHANGED <<chats, messages, files, disk, next_id, llm, req, call>>

\* --------------------------------------------------------- specifications
\* The payloads json.loads can return
Object(action, is_edit, data) ==
  [kind |-> "object", action |-> action, is_edit |-> is_edit,
   use_template |-> FALSE, data |-> data]

PlainPayload == Object("create_excel", FALSE, "empty_dict")

Payloads ==
  {Object(a, e, d) : a \in KnownActions, e \in BOOLEAN, d \in {"empty_dict", "list"}}
  \cup {Object("create_excel", FALSE, "num_title"),
        Object("create_chart", FALSE, "empty_dict"),
        Object("absent", FALSE, "empty_dict"),
        [PlainPayload EXCEPT !.kind = "array"]}

\* The replies of the model: an analysis; prose, a fenced block, prose; a
\* reply that is the JSON text; a fenced block that is no JSON; a fence never
\* closed; JSON after prose
AnalysisReply == <<"P">>
FencedReply == <<"P", "WS", "FJ", "WS", "J", "WS", "F", "WS", "P">>
WholeReply == <<"WS", "J", "WS">>
BrokenReply == <<"P", "FJ", "B", "F">>
UnclosedReply == <<"P", "FJ", "J", "WS">>
InlineReply == <<"P", "J">>

Oracles ==
  {[raises |-> FALSE, text |-> t, payload |-> PlainPayload] :
      t \in {AnalysisReply, BrokenReply, InlineReply, UnclosedReply}}
  \cup {[raises |-> FALSE, text |-> t, payload |-> p] :
      t \in {FencedReply, WholeReply}, p \in Payloads}
  \cup {[raises |-> TRUE, text |-> t, payload |-> PlainPayload] :
      t \in {AnalysisReply, FencedReply, WholeReply}}

\* The balances an administrator sets
AdminBalances == {3, 5}

\* The database after two registrations (lines 525-546), one of the
\* administrator's address, and a chat created by each (lines 693-703)
Registered ==
  [u \in UserIds |->
     NewUser(IF u = "u_admin" THEN ADMIN_EMAIL ELSE "user@example.com")]

Created ==
  [c \in ChatIds |->
     [user_id |-> IF c = "c_admin" THEN "u_admin" ELSE "u_user",
      updated_at |-> 0]]

Init ==
  /\ users = Registered
  /\ chats = Created
  /\ messages = <<>>
  /\ files = <<>>
  /\ disk = {}
  /\ next_id = 1
  /\ llm \in Oracles
  /\ req = [r \in Requests |-> IdleReq]
  /\ call = IdleCall

\* no handler is between two of its awaits
Quiet == \A r \in Requests : req[r].pc \in {"idle", "done"}

\* the requests before r have been served
InTurn(r) == \A q \in Requests : q < r => req[q].pc = "done"

\* Requests are served one after the other
Next ==
  \/ \E r \in Requests, u \in UserIds, c \in ChatIds :
       Quiet /\ InTurn(r) /\ get_current_user(r, u, c)
  \/ \E r \in Requests : find_chat(r)
  \/ \E r \in Requests : insert_user_msg(r)
  \/ \E r \in Requests : find_files(r)
  \/ \E r \in Requests : find_messages(r)
  \/ \E r \in Requests : llm_call(r)
  \/ \E r \in Requests : insert_file(r)
  \/ \E r \in Requests : deduct_find(r)
  \/ \E r \in Requests : deduct_update(r)
  \/ \E r \in Requests : insert_ai(r)
  \/ \E r \in Requests : update_chat(r)
  \/ \E u \in UserIds, b \in AdminBalances : Quiet /\ admin_update_user(u, b)

Spec == Init /\ [][Next]_vars

\* ---------------------------------------------- deduct_tokens on its own
\* The arguments of a call: send_message passes the prices of the table
LedgerBalances == {0, 5, 6, 39, 40, 300}
LedgerAmounts == {5, 6, 7, 10, 35, 40, 65}
LedgerUserIds == UserIds \cup {"u_gone"}

EmailOf(user_id) ==
  IF user_id \in DOMAIN Registered THEN Registered[user_id].email
  ELSE "gone@example.com"

InitLedger ==
  /\ \E b \in LedgerBalances : users = [Registered EXCEPT !["u_user"].balance = b]
  /\ chats = Created
  /\ messages = <<>>
  /\ files = <<>>
  /\ disk = {}
  /\ next_id = 1
  /\ llm = [raises |-> FALSE, text |-> AnalysisReply, payload |-> PlainPayload]
  /\ req = [r \in Requests |-> IdleReq]
  /\ \E u \in LedgerUserIds, a \in LedgerAmounts :
       \E e \in {None, EmailOf(u)} :
         call = [pc |-> "find", user_id |-> u, amount |-> a, user_email |-> e,
                 result |-> FALSE, before |-> users]

\* lines 199-204
ledger_find ==
  /\ call.pc = "find"
  /\ LET d == DeductDecision(call.user_id, call.amount, call.user_email)
     IN  call' = [call EXCEPT !.pc = IF d = "charge" THEN "update" ELSE "done",
                              !.result = d = "exempt"]
  /\ UNCHANGED <<users, chats, messages, files, disk, next_id, llm, req>>

\* lines 206-220
ledger_update ==
  /\ call.pc = "update"
  /\ users' = DeductUpdate(call.user_id, call.amount, 0)
  /\ call' = [call EXCEPT !.pc = "done", !.result = TRUE]
  /\ UNCHANGED <<chats, messages, files, disk, next_id, llm, req>>

NextLedger == ledger_find \/ ledger_update

SpecLedger == InitLedger /\ [][NextLedger]_vars

\* ------------------------------------------- one request, every short reply
Alphabet == {"FJ", "F", "WS", "P", "J", "B"}

Texts == UNION {[1..n -> Alphabet] : n \in 1..MaxReplyLen}

HasJson(t) == \E i \in 1..Len(t) : t[i] = "J"

ParsePayloads ==
  {PlainPayload,
   Object("create_pptx", TRUE, "list"),
   Object("create_word", TRUE, "empty_dict"),
   Object("create_chart", FALSE, "empty_dict"),
   Object("absent", FALSE, "empty_dict"),
   [PlainPayload EXCEPT !.kind = "array"]}

ParseOracles ==
  {[raises |-> FALSE, text |-> t, payload |-> p] :
      t \in {x \in Texts : HasJson(x)}, p \in ParsePayloads}
  \cup {[raises |-> FALSE, text |-> t, payload |-> PlainPayload] :
      t \in {x \in Texts : ~HasJson(x)}}

\* A request that has passed the first gate and stored the user's message
\* (lines 850-876) and now awaits the model
InitParse ==
  /\ \E b \in {5, INITIAL_TOKENS} :
       users = [Registered EXCEPT !["u_user"].balance = b]
  /\ chats = Created
  /\ files = <<>>
  /\ disk = {}
  /\ next_id = 1
  /\ llm \in ParseOracles
  /\ \E u \in UserIds :
       LET c == CHOOSE x \in ChatIds : Created[x].user_id = u
       IN  /\ messages =
                <<[chat_id |-> c, role |-> "user", content |-> <<"U">>,
                   file_id |-> NoId, file_name |-> None,
                   tokens_used |-> NoTokens, req |-> 1]>>
           /\ req = [r \in Requests |->
                       IF r = 1
                       THEN [IdleReq EXCEPT
                               !.pc = "llm", !.user_id = u, !.chat_id = c,
                               !.balance = users[u].balance,
                               !.user_is_admin = users[u].is_admin,
                               !.email = users[u].email]
                       ELSE IdleReq]
  /\ call = IdleCall

NextParse ==
  \/ \E r \in Requests : llm_call(r)
  \/ \E r \in Requests : insert_file(r)
  \/ \E r \in Requests : deduct_find(r)
  \/ \E r \in Requests : deduct_update(r)
  \/ \E r \in Requests : insert_ai(r)
  \/ \E r \in Requests : update_chat(r)

SpecParse == InitParse /\ [][NextParse]_vars

\* ------------------------------------------------- extract_file_content
\* The caps of the extractors
XLS_ROW_CAP == 100
XLSX_ROW_CAP == 100
PDF_PAGE_CAP == 20
PDF_PAGE_CHARS == 3000
TXT_CAP == 20000

Min(a, b) == IF a < b THEN a ELSE b

\* A text is the run of characters first..last of what was read (empty when
\* last < first); text[:k]
Chars(n) == [first |-> 1, last |-> n]

Prefix(text, k) == [first |-> text.first, last |-> Min(text.last, text.first + k - 1)]

\* line 336: filename.lower().split('.')[-1] of the extensions used here
get_file_type(ext) ==
  CASE ext = "XLS" -> "xls"
    [] ext = "PDF" -> "pdf"
    [] OTHER -> ext

\* The outcomes of an extractor: the string it returns, or the exception that
\* leaves it
Returned(kind, value) == [raised |-> FALSE, kind |-> kind, value |-> value]
ErrorString == Returned("error", <<>>)
Raised == [raised |-> TRUE, kind |-> "exception", value |-> <<>>]

\* lines 231-233: the rows of a legacy sheet, by index
XlsRows(nrows) == [row_idx \in 1..Min(nrows, XLS_ROW_CAP) |-> row_idx]

\* XlsxRows that tests the count after the cap is passed
RECURSIVE XlsxRowsLate(_, _, _)
XlsxRowsLate(nrows, row_count, next_row) ==
  IF next_row > nrows THEN row_count
  ELSE IF row_count > XLSX_ROW_CAP THEN row_count
  ELSE XlsxRowsLate(nrows, row_count + 1, next_row + 1)

\* lines 241-247: iter_rows yields the rows in order and the counter breaks
\* the loop; the value is the counter when the loop ends, and the rows
\* appended are the rows 1..counter
RECURSIVE XlsxRows(_, _, _)
XlsxRows(nrows, row_count, next_row) ==
  IF next_row > nrows THEN row_count
  ELSE IF row_count >= XLSX_ROW_CAP THEN row_count
  ELSE XlsxRows(nrows, row_count + 1, next_row + 1)

\* lines 224-251: the legacy reader is chosen by the path's suffix; openpyxl
\* raises on a legacy workbook, both raise on a missing or corrupt file
extract_excel_content(f) ==
  IF f.cond # "ok" THEN ErrorString
  ELSE IF f.ext = "xls"
  THEN Returned("rows", [k \in 1..Len(f.sheets) |-> XlsRows(f.sheets[k])])
  ELSE IF f.ext = "XLS" THEN ErrorString
  ELSE Returned("rows",
         [k \in 1..Len(f.sheets) |->
            [row_idx \in 1..XlsxRows(f.sheets[k], 0, 1) |-> row_idx]])

\* lines 253-292: python-docx and python-pptx raise inside the try
extract_office_content(f) ==
  IF f.cond # "ok" THEN ErrorString ELSE Returned("document", <<>>)

\* lines 294-308: the pages of reader.pages[:20] that have text
extract_pdf_content(f) ==
  IF f.cond # "ok" THEN ErrorString
  ELSE LET read == Sub(f.pages, 1, Min(Len(f.pages), PDF_PAGE_CAP))
           texts == [i \in 1..Len(read) |->
                       [page |-> i, chars |-> Prefix(Chars(read[i]), PDF_PAGE_CHARS),
                        found |-> read[i]]]
       IN  Returned("pages", SelectSeq(texts, LAMBDA t : t.found > 0))

\* lines 310-318: the except clauses belong to the one try; what the handler
\* of UnicodeDecodeError raises leaves the function
extract_txt_content(f) ==
  CASE f.cond = "ok" -> Returned("text", Prefix(Chars(f.len), TXT_CAP))
    [] f.cond = "not_utf8" -> Returned("text", Prefix(Chars(f.len), TXT_CAP))
    [] f.cond = "fallback_fails" -> Raised
    [] OTHER -> ErrorString

\* lines 320-333
extract_file_content(f, file_type) ==
  CASE file_type \in {"xlsx", "xls"} -> extract_excel_content(f)
    [] file_type \in {"docx", "pptx"} -> extract_office_content(f)
    [] file_type = "pdf" -> extract_pdf_content(f)
    [] file_type \in {"txt", "rtf"} -> extract_txt_content(f)
    [] OTHER -> Returned("unsupported", <<>>)

\* The files handed to the extractor. cond: "ok"; "missing" (no file at the
\* path); "corrupt" (not of the declared format); "not_utf8" (bytes that do not
\* decode as UTF-8); "fallback_fails" (not UTF-8, and the second open or read
\* raises OSError)
RowCounts == {0, 1, 99, 100, 101, 150}
PageLens == <<2999, 0, 3000, 3500>>
PageCounts == {0, 1, 19, 20, 21, 30}
TextLens == {0, 1, 19999, 20000, 20001, 25000}

BlankFile == [ext |-> "png", cond |-> "ok", sheets |-> <<>>, pages |-> <<>>, len |-> 0]

ExtractInputs ==
  {[BlankFile EXCEPT !.ext = e, !.cond = c] :
      e \in {"xlsx", "xls", "XLS", "docx", "pptx", "pdf", "PDF", "png"},
      c \in {"missing", "corrupt"}}
  \cup {[BlankFile EXCEPT !.ext = e] : e \in {"docx", "pptx", "png"}}
  \cup {[BlankFile EXCEPT !.ext = e, !.sheets = <<a, b>>] :
      e \in {"xlsx", "xls", "XLS"}, a \in RowCounts, b \in RowCounts}
  \cup {[BlankFile EXCEPT !.ext = e,
                          !.pages = [i \in 1..n |-> PageLens[(i % 4) + 1]]] :
      e \in {"pdf", "PDF"}, n \in PageCounts}
  \cup {[BlankFile EXCEPT !.ext = e, !.cond = c, !.len = n] :
      e \in {"txt", "rtf"}, n \in TextLens,
      c \in {"ok", "missing", "not_utf8", "fallback_fails"}}

InitExtract ==
  /\ users = Registered
  /\ chats = Created
  /\ messages = <<>>
  /\ files = <<>>
  /\ disk = {}
  /\ next_id = 1
  /\ llm = [raises |-> FALSE, text |-> AnalysisReply, payload |-> PlainPayload]
  /\ req = [r \in Requests |-> IdleReq]
  /\ \E f \in ExtractInputs :
       call = [pc |-> "extract", file |-> f, file_type |-> get_file_type(f.ext),
               result |-> Raised]

\* line 806: the call upload_file makes
extract ==
  /\ call.pc = "extract"
  /\ call' = [call EXCEPT !.pc = "done",
                          !.result = extract_file_content(call.file, call.file_type)]
  /\ UNCHANGED <<users, chats, messages, files, disk, next_id, llm, req>>

NextExtract == extract

SpecExtract == InitExtract /\ [][NextExtract]_vars

\* ------------------------------------------ generate_pptx_from_template
\* A presentation is its slide layouts and its slides. A layout is named by
\* the placeholders it gives a new slide; a slide is the index of its layout
\* (from 0), its shapes in shape order, and as history where it came from and
\* which payload entry (from 0, -1: none) was last written into it. A shape
\* is its kind and its text:
\*   "title"     the title placeholder (slide.shapes.title)
\*   "subtitle"  a placeholder of type 4      "body"  a placeholder of type 2
\*   "object"    a content placeholder (type 7)
\*   "picture"   a shape without a text frame
\* A text is <<what, entry>> for what an entry wrote, <<"old", 0>> for the
\* template's text and <<"empty", 0>> for a new placeholder.
LayoutShapes(layout) ==
  CASE layout = "title_slide" -> <<"title", "subtitle">>
    [] layout = "content" -> <<"title", "object">>
    [] layout = "two_content" -> <<"title", "object", "picture", "object">>
    [] layout = "body_only" -> <<"body">>

NewSlide(prs, k, origin, text) ==
  [layout |-> k, origin |-> origin, filled_by |-> -1,
   shapes |-> [j \in 1..Len(LayoutShapes(prs.layouts[k + 1])) |->
                 [kind |-> LayoutShapes(prs.layouts[k + 1])[j], text |-> text]]]

\* lines 463-512, one shape of the loop at 474: the title is skipped (it was
\* written at 471), a placeholder of type 2 or 4 takes the subtitle, and any
\* other shape with a text frame takes the bullets, else the content; the
\* loop has no break
FillShape(shape, d, i) ==
  CASE shape.kind = "picture" -> shape
    [] shape.kind = "title" ->
         IF d.title THEN [shape EXCEPT !.text = <<"title", i>>] ELSE shape
    [] OTHER ->
         IF d.subtitle /\ shape.kind \in {"body", "subtitle"}
         THEN [shape EXCEPT !.text = <<"subtitle", i>>]
         ELSE IF d.bullets THEN [shape EXCEPT !.text = <<"bullets", i>>]
         ELSE IF d.content THEN [shape EXCEPT !.text = <<"content", i>>]
         ELSE shape

_fill_slide_content(slide, d, i) ==
  [slide EXCEPT !.filled_by = i,
                !.shapes = [j \in 1..Len(slide.shapes) |->
                              FillShape(slide.shapes[j], d, i)]]

\* LayoutForNew that always takes the first layout
LayoutForNewFirst(prs) == 0

\* lines 433-436
LayoutForNew(prs) == IF Len(prs.layouts) > 1 THEN 1 ELSE 0

\* lines 427-438: entry i (from 0) of slides_data onwards
RECURSIVE FillFromTemplate(_, _, _)
FillFromTemplate(prs, slides_data, i) ==
  IF i >= Len(slides_data) THEN prs
  ELSE LET d == slides_data[i + 1]
       IN  IF i < Len(prs.slides)
           THEN FillFromTemplate(
                  [prs EXCEPT !.slides[i + 1] = _fill_slide_content(@, d, i)],
                  slides_data, i + 1)
           ELSE FillFromTemplate(
                  [prs EXCEPT !.slides =
                     Append(@, _fill_slide_content(
                                 NewSlide(prs, LayoutForNew(prs), "added",
                                          <<"empty", 0>>), d, i))],
                  slides_data, i + 1)

\* DefaultPresentation that starts with a slide
DefaultPresentationWithSlide ==
  [layouts |-> <<"title_slide", "content">>,
   slides |-> <<[layout |-> 0, origin |-> "added", filled_by |-> -1,
                 shapes |-> <<[kind |-> "title", text |-> <<"empty", 0>>]>>]>>]

\* Presentation(): the default template's first two layouts
DefaultPresentation == [layouts |-> <<"title_slide", "content">>, slides |-> <<>>]

\* lines 447-457
RECURSIVE FillFromScratch(_, _, _)
FillFromScratch(prs, slides_data, i) ==
  IF i >= Len(slides_data) THEN prs
  ELSE LET d == slides_data[i + 1]
           k == IF d.type = "title" \/ i = 0 THEN 0 ELSE 1
       IN  FillFromScratch(
             [prs EXCEPT !.slides =
                Append(@, _fill_slide_content(
                            NewSlide(prs, k, "added", <<"empty", 0>>), d, i))],
             slides_data, i + 1)

\* lines 416-461. template: "none" (no path), "missing" (no file at the path),
\* "present"
generate_pptx_from_template(slides_data, template, template_prs) ==
  IF template = "present"
  THEN [from_template |-> TRUE, prs |-> FillFromTemplate(template_prs, slides_data, 0)]
  ELSE [from_template |-> FALSE,
        prs |-> FillFromScratch(DefaultPresentation, slides_data, 0)]

\* The slide entries of a payload and the templates a user uploads
Entries ==
  {[type |-> "content", title |-> TRUE, subtitle |-> FALSE, bullets |-> TRUE,
    content |-> FALSE],
   [type |-> "title", title |-> TRUE, subtitle |-> TRUE, bullets |-> FALSE,
    content |-> FALSE],
   [type |-> "content", title |-> FALSE, subtitle |-> FALSE, bullets |-> FALSE,
    content |-> TRUE]}

LayoutSets ==
  {<<"content">>, <<"title_slide", "content">>,
   <<"title_slide", "two_content", "body_only">>}

TemplatesOf(ls) ==
  {[layouts |-> ls,
    slides |-> [j \in 1..n |->
                  NewSlide([layouts |-> ls, slides |-> <<>>], ks[j], "template",
                           <<"old", 0>>)]] :
      n \in 0..MaxSlides, ks \in [1..MaxSlides -> 0..(Len(ls) - 1)]}

Templates == UNION {TemplatesOf(ls) : ls \in LayoutSets}

InitDeck ==
  /\ users = Registered
  /\ chats = Created
  /\ messages = <<>>
  /\ files = <<>>
  /\ disk = {}
  /\ next_id = 1
  /\ llm = [raises |-> FALSE, text |-> AnalysisReply, payload |-> PlainPayload]
  /\ req = [r \in Requests |-> IdleReq]
  /\ \E n \in 0..MaxEntries, t \in {"none", "missing", "present"} :
       \E es \in [1..n -> Entries], tp \in Templates :
         /\ t # "present" => tp = CHOOSE x \in Templates : x.slides = <<>>
         /\ call = [pc |-> "render", slides_data |-> es, template |-> t,
                    template_prs |-> tp,
                    result |-> [from_template |-> FALSE, prs |-> DefaultPresentation]]

\* line 981: the call send_message makes
render_pptx ==
  /\ call.pc = "render"
  /\ call' = [call EXCEPT
                !.pc = "done",
                !.result = generate_pptx_from_template(
                             call.slides_data, call.template, call.template_prs)]
  /\ UNCHANGED <<users, chats, messages, files, disk, next_id, llm, req>>

NextDeck == render_pptx

SpecDeck == InitDeck /\ [][NextDeck]_vars

\* ---------------------------------------------- generate_excel_from_data
SHEET_TITLE_CAP == 31

\* A payload's data: each key is present or not ('title' in data); the title
\* is the number of its characters, headers a sequence of values, rows a
\* sequence of sequences of values. The sheet is its title (NoTitle: the
\* workbook's default) and its cells, a function from <<row, column>> to the
\* value written last.
NoTitle == [first |-> 0, last |-> 0]

\* ws.cell(row, column, value)
WriteCell(cells, row, col, value) ==
  [x \in DOMAIN cells \cup {<<row, col>>} |->
     IF x = <<row, col>> THEN value ELSE cells[x]]

\* lines 351-352 and 361-362: enumerate(values, 1) along one sheet row
RECURSIVE WriteRow(_, _, _, _)
WriteRow(cells, row, values, col) ==
  IF col > Len(values) THEN cells
  ELSE WriteRow(WriteCell(cells, row, col, values[col]), row, values, col + 1)

\* line 360: enumerate(data['rows'], start_row)
RECURSIVE WriteRows(_, _, _, _)
WriteRows(cells, rows, k, row_idx) ==
  IF k > Len(rows) THEN cells
  ELSE WriteRows(WriteRow(cells, row_idx, rows[k], 1), rows, k + 1, row_idx + 1)

\* StartRow that ignores the headers
StartRowOne(data) == 1

\* line 359
StartRow(data) == IF data.has_headers THEN 2 ELSE 1

\* lines 340-362 (the column widths and the save follow)
generate_excel_from_data(data) ==
  LET headed == IF data.has_headers
                THEN WriteRow(<<>>, 1, data.headers, 1) ELSE <<>>
      filled == IF data.has_rows
                THEN WriteRows(headed, data.rows, 1, StartRow(data)) ELSE headed
  IN  [title |-> IF data.has_title
                 THEN Prefix(Chars(data.title), SHEET_TITLE_CAP)
                 ELSE NoTitle,
       cells |-> filled]

TitleLens == {1, 30, 31, 32, 40}
HeaderSets == {<<>>, <<"A">>, <<"A", "B">>}
RowSets == {<<>>, <<<<"1", "2">>>>, <<<<"1", "2">>, <<"3", "4">>>>, <<<<"1">>, <<"3", "4">>>>}

ExcelData ==
  {[has_title |-> ht, title |-> t, has_headers |-> hh, headers |-> h,
    has_rows |-> hr, rows |-> rs] :
      ht \in BOOLEAN, t \in TitleLens, hh \in BOOLEAN, h \in HeaderSets,
      hr \in BOOLEAN, rs \in RowSets}

InitExcel ==
  /\ users = Registered
  /\ chats = Created
  /\ messages = <<>>
  /\ files = <<>>
  /\ disk = {}
  /\ next_id = 1
  /\ llm = [raises |-> FALSE, text |-> AnalysisReply, payload |-> PlainPayload]
  /\ req = [r \in Requests |-> IdleReq]
  /\ \E d \in ExcelData :
       \* a key that is absent has no value
       /\ ~d.has_title => d.title = 1
       /\ ~d.has_headers => d.headers = <<>>
       /\ ~d.has_rows => d.rows = <<>>
       /\ call = [pc |-> "render", data |-> d,
                  result |-> [title |-> NoTitle, cells |-> <<>>]]

\* line 966: the call send_message makes
render_excel ==
  /\ call.pc = "render"
  /\ call' = [call EXCEPT !.pc = "done",
                          !.result = generate_excel_from_data(call.data)]
  /\ UNCHANGED <<users, chats, messages, files, disk, next_id, llm, req>>

NextExcel == render_excel

SpecExcel == InitExcel /\ [][NextExcel]_vars

\* ------------------------------------------- upload_file, download_file
\* lines 796-798
AllowedTypes == {"xlsx", "xls", "docx", "pptx", "pdf", "txt", "rtf"}

\* The files a client uploads
UploadInputs ==
  {[BlankFile EXCEPT !.ext = "xlsx", !.sheets = <<1>>],
   [BlankFile EXCEPT !.ext = "pptx", !.cond = "corrupt"],
   [BlankFile EXCEPT !.ext = "txt", !.cond = "fallback_fails"],
   BlankFile}

\* lines 789-846 for the user of a valid bearer token. The bytes are written
\* (803-804) before the extraction (806), whose exception leaves the handler.
\* The new id stands for the time of updated_at.
upload_file(u, c, f) ==
  /\ next_id <= MaxUploads
  /\ u \in DOMAIN users
  /\ c \in DOMAIN chats /\ chats[c].user_id = u
  /\ get_file_type(f.ext) \in AllowedTypes
  /\ disk' = disk \cup {next_id}
  /\ next_id' = next_id + 1
  /\ IF extract_file_content(f, get_file_type(f.ext)).raised
     THEN UNCHANGED <<files, messages, chats>>
     ELSE /\ files' = Append(files,
                 [id |-> next_id, chat_id |-> c, user_id |-> u,
                  filename |-> f.ext, file_type |-> get_file_type(f.ext),
                  is_generated |-> FALSE, req |-> 0])
          /\ messages' = Append(messages,
                 [chat_id |-> c, role |-> "user", content |-> <<"UPLOADED">>,
                  file_id |-> next_id, file_name |-> f.ext,
                  tokens_used |-> NoTokens, req |-> 0])
          /\ chats' = [chats EXCEPT ![c].updated_at = next_id]
  /\ UNCHANGED <<users, llm, req, call>>

\* the file of a record is no longer at its path
lose_file(id) ==
  /\ id \in disk
  /\ disk' = disk \ {id}
  /\ UNCHANGED <<users, chats, messages, files, next_id, llm, req, call>>

\* db.files.find_one({'id': file_id}): the index of the record, 0 for None
FindFile(file_id) ==
  IF \E i \in 1..Len(files) : files[i].id = file_id
  THEN CHOOSE i \in 1..Len(files) : files[i].id = file_id
  ELSE 0

\* OwnsChat for any chat that exists
OwnsChatAny(chat_id, user_id) == chat_id \in DOMAIN chats

\* line 1079: db.chats.find_one({'id': chat_id, 'user_id': user_id})
OwnsChat(chat_id, user_id) ==
  chat_id \in DOMAIN chats /\ chats[chat_id].user_id = user_id

\* lines 1063-1104. The request carries a token as the query parameter
\* "token" or not at all; an Authorization header is no parameter of the
\* handler. token: None, "bad" (jwt.decode raises) or the user id it encodes.
DownloadStatus(token, file_id) ==
  IF token = None THEN 401
  ELSE IF token = "bad" THEN 401
  ELSE IF FindFile(file_id) = 0 THEN 404
  ELSE IF ~OwnsChat(files[FindFile(file_id)].chat_id, token) THEN 403
  ELSE IF file_id \notin disk THEN 404
  ELSE 200

\* how a client presents its credentials
Credentials ==
  {[query |-> q, header |-> None] : q \in UserIds \cup {"bad"}}
  \cup {[query |-> None, header |-> h] : h \in UserIds \cup {None}}

download_file(cred, file_id) ==
  /\ call' = [pc |-> "done", cred |-> cred, file_id |-> file_id,
              status |-> DownloadStatus(cred.query, file_id),
              body |-> IF DownloadStatus(cred.query, file_id) = 200
                       THEN file_id ELSE NoId,
              before |-> [files |-> files, chats |-> chats, disk |-> disk]]
  /\ UNCHANGED <<users, chats, messages, files, disk, next_id, llm, req>>

InitFiles ==
  /\ users = Registered
  /\ chats = Created
  /\ messages = <<>>
  /\ files = <<>>
  /\ disk = {}
  /\ next_id = 1
  /\ llm = [raises |-> FALSE, text |-> AnalysisReply, payload |-> PlainPayload]
  /\ req = [r \in Requests |-> IdleReq]
  /\ call = [pc |-> "idle", cred |-> [query |-> None, header |-> None],
             file_id |-> NoId, status |-> 0, body |-> NoId,
             before |-> [files |-> files, chats |-> chats, disk |-> disk]]

NextFiles ==
  \/ \E u \in UserIds, c \in ChatIds, f \in UploadInputs : upload_file(u, c, f)
  \/ \E id \in 1..MaxUploads : lose_file(id)
  \/ \E cred \in Credentials, id \in 1..(MaxUploads + 1) : download_file(cred, id)

SpecFiles == InitFiles /\ [][NextFiles]_vars

\* ------------------------------------------------------------ observation
Done(r) == req[r].pc = "done"

\* the request has its reply: llm_call has run
Replied(r) == req[r].reply # <<>>

FilesOf(r) == {i \in 1..Len(files) : files[i].req = r}

MessagesOf(r, role) ==
  {i \in 1..Len(messages) : messages[i].req = r /\ messages[i].role = role}

\* the ledger entries a request pushed, over all users
ChargesOf(r) ==
  {<<u, i>> \in UserIds \X (1..(2 + MaxReq)) :
      /\ u \in DOMAIN users
      /\ i <= Len(users[u].transactions)
      /\ users[u].transactions[i].req = r}

\* The price table as the specification prints it
PriceOf(action, is_edit) ==
  CASE action = "create_pptx" -> IF is_edit THEN 10 ELSE 65
    [] action = "create_word" -> IF is_edit THEN 6 ELSE 35
    [] action = "create_excel" -> IF is_edit THEN 7 ELSE 40
    [] OTHER -> 5

\* the reply carries an action: its candidate is the JSON text of an object
\* naming one of the three kinds
CarriesAction(r) ==
  /\ req[r].json_str = <<"J">>
  /\ llm.payload.kind = "object"
  /\ llm.payload.action \in {"create_excel", "create_word", "create_pptx"}

ResolvedCost(r) ==
  IF CarriesAction(r) THEN PriceOf(llm.payload.action, llm.payload.is_edit) ELSE 5

\* ------------------------------------------------------------------ claims
\* C1 (as claimed): a request of a non-exempt actor whose balance is below the
\* resolved cost of the reply's action (or below the analysis cost 5) ends
\* with 402, inserts no file record and leaves balance and transactions alone.
C1_InsufficientEnds402 ==
  \A r \in Requests :
    ( /\ Done(r) /\ req[r].status # 404
      /\ ~req[r].user_is_admin
      /\ \/ req[r].balance < 5
         \/ Replied(r) /\ req[r].balance < ResolvedCost(r) )
    => /\ req[r].status = 402
       /\ FilesOf(r) = {}
       /\ req[r].deducted = 0
       /\ ChargesOf(r) = {}

\* C2 (as claimed): when the 402 of the action's balance gate is raised, this
\* request has written no document to the generated-files directory.
C2_NoDocumentBefore402 ==
  \A r \in Requests :
    (Done(r) /\ req[r].status = 402) => req[r].rendered = NoId

\* C3 (as claimed): after a request ended with 402, its user message and an
\* assistant message with the model's reply are both in the messages.
C3_ConversationKeptOn402 ==
  \A r \in Requests :
    (Done(r) /\ req[r].status = 402)
    => /\ MessagesOf(r, "user") # {}
       /\ \E i \in MessagesOf(r, "assistant") : messages[i].content = req[r].reply

\* C4 (as claimed): when the model call raised, the error reply is not searched
\* for an action: nothing is rendered, no file record is made, the cost is 5
\* and charged to a non-exempt actor, the assistant message holds the error
\* text and the response is a normal one.
C4_FailedCallSkipsActions ==
  \A r \in Requests :
    (Done(r) /\ req[r].llm_failed)
    => /\ req[r].status = 200
       /\ req[r].rendered = NoId
       /\ req[r].generated_file_id = NoId
       /\ FilesOf(r) = {}
       /\ req[r].tokens_used = 5
       /\ ~req[r].user_is_admin => req[r].deducted = 5
       /\ \E i \in MessagesOf(r, "assistant") : messages[i].content = req[r].reply

\* C5: the resolved cost is the price table's entry for (kind, is_edit) of the
\* reply's action and 5 without one; a request of a non-exempt actor that
\* returned normally with a balance covering that cost took exactly the cost
\* from the balance and pushed one ledger entry of its negation.
C5_CostIsLookupAndCharged ==
  \A r \in Requests :
    /\ Replied(r) => req[r].tokens_used = ResolvedCost(r)
    /\ ( /\ Done(r) /\ req[r].status = 200
         /\ ~req[r].user_is_admin
         /\ req[r].balance >= ResolvedCost(r) )
       => /\ req[r].deducted = ResolvedCost(r)
          /\ Cardinality(ChargesOf(r)) = 1
          /\ \A c \in ChargesOf(r) :
               /\ c[1] = req[r].user_id
               /\ users[c[1]].transactions[c[2]].amount = 0 - ResolvedCost(r)

C5_Witness ==
  \E r \in Requests :
    /\ Done(r) /\ req[r].status = 200 /\ ~req[r].user_is_admin
    /\ CarriesAction(r) /\ llm.payload.is_edit
    /\ llm.payload.action = "create_pptx"
    /\ req[r].deducted = 10
    /\ FilesOf(r) # {}

\* C6: a request of an admin never changes a balance or pushes a ledger
\* entry, is never stopped by a balance gate however low the admin's balance,
\* and its assistant message records tokens_used = 0.
C6_AdminIsExempt ==
  \A r \in Requests :
    req[r].user_is_admin
    => /\ req[r].deducted = 0
       /\ ChargesOf(r) = {}
       /\ req[r].status # 402
       /\ \A i \in MessagesOf(r, "assistant") : messages[i].tokens_used = 0
       /\ Done(r) /\ req[r].status = 200 => MessagesOf(r, "assistant") # {}

C6_Witness ==
  \E r \in Requests :
    /\ Done(r) /\ req[r].status = 200 /\ req[r].user_is_admin
    /\ req[r].balance = 3
    /\ CarriesAction(r) /\ FilesOf(r) # {}
    /\ users[req[r].user_id].balance = 3

\* C7: a deduct_tokens call for a non-exempt actor that has returned: when the
\* user is missing or the stored balance is below the amount it returned
\* False and the users collection is as before the call; otherwise it returned
\* True, the balance is lower by exactly the amount, exactly one transaction
\* of amount -amount was appended and nothing else changed.
C7_DeductTokensContract ==
  (call.pc = "done" /\ call.user_id # "u_admin")
  => LET before == call.before
         u == call.user_id
     IN  IF u \notin DOMAIN before \/ before[u].balance < call.amount
         THEN call.result = FALSE /\ users = before
         ELSE /\ call.result = TRUE
              /\ users[u].balance = before[u].balance - call.amount
              /\ Len(users[u].transactions) = Len(before[u].transactions) + 1
              /\ users[u].transactions[Len(users[u].transactions)].amount
                   = 0 - call.amount
              /\ Sub(users[u].transactions, 1, Len(before[u].transactions))
                   = before[u].transactions
              /\ \A o \in DOMAIN users : o # u => users[o] = before[o]
              /\ DOMAIN users = DOMAIN before

C7_Witness ==
  /\ call.pc = "done" /\ call.user_id = "u_user" /\ call.result = TRUE
  /\ call.amount = 40
  /\ call.before["u_user"].balance = 40
  /\ users["u_user"].balance = 0
  /\ Len(users["u_user"].transactions) = 2

\* C8 (as claimed): detection has a fixed order. With a ```json fence in the
\* reply the candidate is the trimmed text between the first such fence and
\* the next fence (when no fence follows: the trimmed text up to the end of
\* the reply, or no candidate); without one, a trimmed reply that starts with
\* a brace and contains the action marker is the candidate as a whole; in
\* every other case there is no candidate, no render and no file.
C8_DetectionOrder ==
  \A r \in Requests :
    Replied(r)
    => LET t == req[r].reply
           fences == {i \in 1..Len(t) : t[i] = "FJ"}
           first == IF fences = {} THEN 0
                    ELSE CHOOSE i \in fences : \A k \in fences : i <= k
           closers == {j \in (first + 1)..Len(t) : t[j] \in {"FJ", "F"}}
           close == CHOOSE j \in closers : \A k \in closers : j <= k
           brace == StartsWithBrace(Strip(t), llm.payload)
                    /\ HasActionMarker(t, llm.payload)
       IN  /\ (first # 0 /\ closers # {})
              => req[r].json_str = Strip(Sub(t, first + 1, close - 1))
           /\ (first # 0 /\ closers = {})
              => req[r].json_str \in {Strip(Sub(t, first + 1, Len(t))), <<>>}
           /\ (first = 0 /\ brace) => req[r].json_str = Strip(t)
           /\ (first = 0 /\ ~brace)
              => /\ req[r].json_str = <<>>
                 /\ req[r].rendered = NoId
                 /\ FilesOf(r) = {}

\* C9: when the candidate is not the JSON text of a value, the request goes on
\* as without an action: nothing is rendered, no file record is made, the
\* cost is 5 (and that is what a non-exempt actor pays), no 402 is raised, and
\* the assistant message holds the reply as the model gave it, without a file
\* reference.
C9_ParseFailureIsNoAction ==
  \A r \in Requests :
    (Replied(r) /\ req[r].json_str # <<>> /\ req[r].json_str # <<"J">>)
    => /\ req[r].rendered = NoId
       /\ FilesOf(r) = {}
       /\ req[r].tokens_used = 5
       /\ req[r].status # 402
       /\ \A i \in MessagesOf(r, "assistant") :
            /\ messages[i].content = req[r].reply
            /\ messages[i].file_id = NoId
            /\ messages[i].file_name = None
       /\ Done(r) => /\ req[r].status = 200
                     /\ MessagesOf(r, "assistant") # {}
                     /\ ~req[r].user_is_admin => req[r].deducted = 5

C9_Witness ==
  \E r \in Requests :
    /\ Done(r) /\ req[r].status = 200 /\ ~req[r].user_is_admin
    /\ req[r].reply = <<"FJ", "B", "F">>
    /\ req[r].json_str = <<"B">>
    /\ req[r].deducted = 5
    /\ \E i \in MessagesOf(r, "assistant") : messages[i].content = req[r].reply

\* C10: when the candidate parses to an object whose action is none of the
\* three kinds (or is absent), nothing is rendered, no file record is made,
\* the resolved cost is 5, no 402 is raised, and the assistant message holds
\* the reply unchanged, fenced block included, with no file name.
C10_UnknownActionIsNoOp ==
  \A r \in Requests :
    ( /\ Replied(r) /\ req[r].json_str = <<"J">>
      /\ llm.payload.kind = "object"
      /\ llm.payload.action \notin {"create_excel", "create_word", "create_pptx"} )
    => /\ req[r].rendered = NoId
       /\ disk = {}
       /\ FilesOf(r) = {}
       /\ req[r].tokens_used = 5
       /\ req[r].status # 402
       /\ \A i \in MessagesOf(r, "assistant") :
            /\ messages[i].content = req[r].reply
            /\ messages[i].file_name = None
       /\ Done(r) => /\ req[r].status = 200
                     /\ MessagesOf(r, "assistant") # {}
                     /\ ~req[r].user_is_admin => req[r].deducted = 5

C10_Witness ==
  \E r \in Requests :
    /\ Done(r) /\ req[r].status = 200
    /\ llm.payload.action = "create_chart"
    /\ req[r].reply = <<"FJ", "J", "F">>
    /\ req[r].json_str = <<"J">>
    /\ \E i \in MessagesOf(r, "assistant") :
         messages[i].content = <<"FJ", "J", "F">>

\* -------------------------------------------------------------- C11 - C20
Count(s, t) == Cardinality({i \in 1..Len(s) : s[i] = t})

\* C11 (as claimed): after a render the stored reply is the original with only
\* the fenced block (or the whole-reply JSON) replaced by the confirmation
\* naming the file: the trimmed prose before the block opens it, the prose
\* after the block is still in it, and the token note is there exactly for a
\* non-exempt actor.
C11_ReplyKeepsProse ==
  \A r \in Requests :
    (Done(r) /\ req[r].status = 200 /\ FilesOf(r) # {})
    => \A i \in MessagesOf(r, "assistant") :
         LET t == req[r].reply
             c == messages[i].content
             fences == {k \in 1..Len(t) : t[k] = "FJ"}
             first == IF fences = {} THEN 0
                      ELSE CHOOSE k \in fences : \A j \in fences : k <= j
             closers == IF first = 0 THEN {}
                        ELSE {j \in (first + 1)..Len(t) : t[j] \in {"FJ", "F"}}
             close == CHOOSE j \in closers : \A k \in closers : j <= k
             before == IF first = 0 THEN <<>> ELSE Strip(Sub(t, 1, first - 1))
             after == IF closers = {} THEN <<>> ELSE Sub(t, close + 1, Len(t))
         IN  /\ \E k \in 1..(Len(c) - 1), f \in FilesOf(r) :
                  c[k] = "CREATED" /\ c[k + 1] = files[f].filename
             /\ Sub(c, 1, Len(before)) = before
             /\ Count(c, "P") = Count(before, "P") + Count(after, "P")
             /\ (Count(c, "TOKEN_NOTE") = 1) <=> ~req[r].user_is_admin

\* the payload's shape makes the renderer, or the name derivation after it,
\* raise: a number as the title, an array as the data
ShapeMismatch(r) ==
  /\ CarriesAction(r)
  /\ llm.payload.data \in {"num_title", "list"}

\* C12: when the renderer or the name derivation raises on the payload's
\* shape, the request is never stopped by an error, makes no file record, and
\* its assistant message has no file id, no file name and the reply as the
\* model gave it; once finished its status is 200 and that message is stored.
C12_RenderFailureRecovered ==
  \A r \in Requests :
    (Replied(r) /\ ShapeMismatch(r))
    => /\ req[r].status \in {0, 200}
       /\ FilesOf(r) = {}
       /\ \A i \in MessagesOf(r, "assistant") :
            /\ messages[i].file_id = NoId
            /\ messages[i].file_name = None
            /\ messages[i].content = req[r].reply
       /\ Done(r) => req[r].status = 200 /\ MessagesOf(r, "assistant") # {}

C12_Witness ==
  \E r \in Requests :
    /\ Done(r) /\ req[r].status = 200 /\ ShapeMismatch(r)
    /\ llm.payload.action = "create_word" /\ req[r].rendered # NoId
    /\ \E i \in MessagesOf(r, "assistant") : messages[i].file_id = NoId

\* the ledger entry a request pushed exists
Charged(r) == ChargesOf(r) # {}

\* C20: the persistent effects of a request that generates a file come in the
\* order user message, render, file record, charge, assistant message, chat
\* timestamp. Effects are never undone, so each effect present implies the
\* earlier ones: a file record needs the user message and the document; a
\* charge needs the file record; the assistant message needs the file record
\* it names, the charge of a non-exempt actor, comes after the user message
\* and carries the file id; the chat's timestamp needs the assistant message.
C20_EffectsInOrder ==
  \A r \in Requests :
    (req[r].pc = "insert_file" \/ FilesOf(r) # {})
    => /\ MessagesOf(r, "user") # {}
       /\ req[r].rendered \in disk
       /\ FilesOf(r) = {} => ~Charged(r) /\ MessagesOf(r, "assistant") = {}
       /\ \A i \in MessagesOf(r, "assistant") :
            /\ \E f \in FilesOf(r) : files[f].id = messages[i].file_id
            /\ ~req[r].user_is_admin => Charged(r)
            /\ \E j \in MessagesOf(r, "user") : j < i
            /\ messages[i].tokens_used
                 = IF req[r].user_is_admin THEN 0 ELSE req[r].tokens_used
       /\ chats[req[r].chat_id].updated_at = r => MessagesOf(r, "assistant") # {}
       /\ Done(r) => chats[req[r].chat_id].updated_at >= r

C20_Witness ==
  \E r \in Requests :
    /\ Done(r) /\ req[r].status = 200 /\ ~req[r].user_is_admin
    /\ FilesOf(r) # {} /\ Charged(r)
    /\ chats[req[r].chat_id].updated_at = r
    /\ \E i \in MessagesOf(r, "assistant") : messages[i].file_id # NoId

\* C13 (as claimed): extract_file_content returns a string for every declared
\* type and every file condition; an unsupported type gives the sentinel, and
\* a missing or corrupt file of a supported type gives the error string.
C13_ExtractNeverRaises ==
  call.pc = "done"
  => /\ ~call.result.raised
     /\ call.file_type \notin {"xlsx", "xls", "docx", "pptx", "pdf", "txt", "rtf"}
        => call.result.kind = "unsupported"
     /\ ( /\ call.file_type \in {"xlsx", "xls", "docx", "pptx", "pdf"}
          /\ call.file.cond \in {"missing", "corrupt"} )
        => call.result.kind = "error"

C15_TemplateFillThenAppend ==
  (call.pc = "done" /\ call.template = "present")
  => LET tp == call.template_prs
         out == call.result.prs
         T == Len(tp.slides)
         N == Len(call.slides_data)
     IN  /\ call.result.from_template
         /\ Len(out.slides) >= N
         /\ \A i \in 0..(N - 1) :
              LET slide == out.slides[i + 1]
              IN  /\ slide.filled_by = i
                  /\ i < T
                     => /\ slide.origin = "template"
                        /\ slide.layout = tp.slides[i + 1].layout
                        /\ Len(slide.shapes) = Len(tp.slides[i + 1].shapes)
                        /\ \A j \in 1..Len(slide.shapes) :
                             slide.shapes[j].kind = tp.slides[i + 1].shapes[j].kind
                  /\ i >= T
                     => /\ slide.origin = "added"
                        /\ slide.layout = (IF Len(tp.layouts) >= 2 THEN 1 ELSE 0)

C15_Witness ==
  /\ call.pc = "done" /\ call.template = "present"
  /\ Len(call.template_prs.slides) = 2
  /\ Len(call.template_prs.layouts) = 3
  /\ Len(call.slides_data) = 3
  /\ call.result.prs.slides[1].origin = "template"
  /\ call.result.prs.slides[2].filled_by = 1
  /\ call.result.prs.slides[3].origin = "added"
  /\ call.result.prs.slides[3].layout = 1

\* the shapes of a slide that hold an entry's bullets or content
ContentShapes(slide) ==
  {j \in 1..Len(slide.shapes) : slide.shapes[j].text[1] \in {"bullets", "content"}}

\* C19 (as claimed): on every slide at most one shape received the bullets or
\* the content, and every text-capable shape after it kept its text.
C19_OneShapeFilled ==
  call.pc = "done"
  => \A k \in 1..Len(call.result.prs.slides) :
       Cardinality(ContentShapes(call.result.prs.slides[k])) <= 1

\* C16: the sheet has header j in cell (1, j); value c of payload row k (from
\* 0) in cell (k + 2, c) when the payload has headers and in cell (k + 1, c)
\* when it has none; no other cell; and as title the first min(n, 31)
\* characters of a title of n characters.
C16_SheetLayout ==
  call.pc = "done"
  => LET data == call.data
         cells == call.result.cells
         first == IF data.has_headers THEN 2 ELSE 1
         header_cells == IF ~data.has_headers THEN {}
                         ELSE {<<1, j>> : j \in 1..Len(data.headers)}
         row_cells == IF ~data.has_rows THEN {}
                      ELSE UNION {{<<k + first, c>> : c \in 1..Len(data.rows[k + 1])} :
                                    k \in 0..(Len(data.rows) - 1)}
     IN  /\ DOMAIN cells = header_cells \cup row_cells
         /\ \A x \in header_cells : cells[x] = data.headers[x[2]]
         /\ \A x \in row_cells : cells[x] = data.rows[x[1] - first + 1][x[2]]
         /\ data.has_title
            => /\ call.result.title.first = 1
               /\ call.result.title.last = (IF data.title < 31 THEN data.title ELSE 31)

C16_Witness ==
  /\ call.pc = "done"
  /\ call.data.headers = <<"A", "B">>
  /\ call.data.rows = <<<<"1", "2">>, <<"3", "4">>>>
  /\ call.data.has_title /\ call.data.title = 40
  /\ call.result.cells[<<1, 1>>] = "A"
  /\ call.result.cells[<<1, 2>>] = "B"
  /\ call.result.cells[<<2, 1>>] = "1"
  /\ call.result.cells[<<3, 2>>] = "4"
  /\ call.result.title.last = 31

\* the record of the requested file and the owner of its chat, as they were
\* when the download was served
AskedFile == CHOOSE f \in {call.before.files[i] : i \in 1..Len(call.before.files)} :
               f.id = call.file_id

FileKnown == \E i \in 1..Len(call.before.files) : call.before.files[i].id = call.file_id

\* C17: a download by an authenticated user who does not own the chat of the
\* file's record ends with 403 and no bytes, whether the file is on disk or
\* not; the owner of the chat gets 404 when the file is not on disk; bytes
\* are served only to the owner of the chat, and are the file asked for.
C17_OnlyOwnerDownloads ==
  (call.pc = "done" /\ FileKnown)
  => LET owner == call.before.chats[AskedFile.chat_id].user_id
         requester == call.cred.query
     IN  /\ (requester \in UserIds /\ requester # owner)
            => call.status = 403 /\ call.body = NoId
         /\ (requester = owner /\ call.file_id \notin call.before.disk)
            => call.status = 404 /\ call.body = NoId
         /\ call.body # NoId
            => /\ requester = owner
               /\ call.body = call.file_id
               /\ call.status = 200

C17_Witness ==
  /\ call.pc = "done" /\ FileKnown
  /\ call.file_id \in call.before.disk
  /\ call.cred.query = "u_admin"
  /\ call.before.chats[AskedFile.chat_id].user_id = "u_user"
  /\ call.status = 403

\* C18 (as claimed): a download of an uploaded file that is on disk, asked by
\* the owner with the bearer token in the Authorization header and no token
\* parameter, ends with 200 and the file.
C18_HeaderTokenDownloads ==
  ( /\ call.pc = "done" /\ FileKnown
    /\ call.file_id \in call.before.disk
    /\ call.cred.query = None
    /\ call.cred.header = call.before.chats[AskedFile.chat_id].user_id )
  => call.status = 200 /\ call.body = call.file_id

\* ================================================================ C21 - C30
\* ------------------------------------------------ generate_word_from_data
\* The document is its body, the sequence of blocks in the order they were
\* added: a heading or a paragraph is its style and text, a table is its cell
\* texts by row. A payload's key is present or not; a present top-level
\* content is a string or some other JSON value.
Block(style, text) == [style |-> style, text |-> text, cells |-> <<>>]

\* line 389: section.get('level', 1)
HeadingStyle(section) ==
  IF section.has_level THEN section.level ELSE "Heading 1"

\* lines 392-393
RECURSIVE Bullets(_, _)
Bullets(bullets, k) ==
  IF k > Len(bullets) THEN <<>>
  ELSE <<Block("List Bullet", bullets[k])>> \o Bullets(bullets, k + 1)

\* lines 388-393, one section
SectionBlocks(section) ==
  (IF section.has_heading
   THEN <<Block(HeadingStyle(section), section.heading)>> ELSE <<>>)
  \o (IF section.has_content
      THEN <<Block("Normal", section.content)>> ELSE <<>>)
  \o (IF section.has_bullets THEN Bullets(section.bullets, 1) ELSE <<>>)

\* lines 386-387
RECURSIVE SectionsBlocks(_, _)
SectionsBlocks(sections, k) ==
  IF k > Len(sections) THEN <<>>
  ELSE SectionBlocks(sections[k]) \o SectionsBlocks(sections, k + 1)

\* lines 395-396
TopContent(data) ==
  IF data.has_content /\ data.content_is_str
  THEN <<Block("Normal", data.content)>> ELSE <<>>

\* lines 407-410: a row of the table has len(headers) cells; the values of
\* row_data are written from the left, the other cells stay empty
TableRow(row_data, cols) ==
  [i \in 1..cols |-> IF i <= Len(row_data) THEN row_data[i] ELSE ""]

\* line 410: row_cells[i] with i past the table's columns is an IndexError
TableRaises(data) ==
  /\ data.has_table
  /\ data.table.has_headers /\ data.table.has_rows
  /\ \E k \in 1..Len(data.table.rows) :
       Len(data.table.rows[k]) > Len(data.table.headers)

\* lines 398-410
TableBlocks(data) ==
  IF data.has_table /\ data.table.has_headers /\ data.table.has_rows
  THEN LET cols == Len(data.table.headers)
       IN  <<[style |-> "Table Grid", text |-> "",
              cells |-> <<data.table.headers>>
                        \o [k \in 1..Len(data.table.rows) |->
                              TableRow(data.table.rows[k], cols)]]>>
  ELSE <<>>

\* lines 379-414
generate_word_from_data(data) ==
  IF TableRaises(data) THEN [raised |-> TRUE, body |-> <<>>]
  ELSE [raised |-> FALSE,
        body |-> (IF data.has_title
                  THEN <<Block("Title", data.title)>> ELSE <<>>)
                 \o (IF data.has_sections
                     THEN SectionsBlocks(data.sections, 1) ELSE <<>>)
                 \o TopContent(data)
                 \o TableBlocks(data)]

NoSection == [has_heading |-> FALSE, heading |-> "", has_level |-> FALSE,
              level |-> "", has_content |-> FALSE, content |-> "",
              has_bullets |-> FALSE, bullets |-> <<>>]

SectionLists ==
  {<<>>,
   <<[NoSection EXCEPT !.has_heading = TRUE, !.heading = "h1",
                       !.has_content = TRUE, !.content = "s1"]>>,
   <<[NoSection EXCEPT !.has_content = TRUE, !.content = "s1"],
     [NoSection EXCEPT !.has_heading = TRUE, !.heading = "h2",
                       !.has_level = TRUE, !.level = "Heading 2",
                       !.has_bullets = TRUE, !.bullets = <<"b1", "b2">>]>>,
   <<[NoSection EXCEPT !.has_heading = TRUE, !.heading = "h2"],
     [NoSection EXCEPT !.has_content = TRUE, !.content = "s1"]>>}

NoTable == [has_headers |-> FALSE, headers |-> <<>>,
            has_rows |-> FALSE, rows |-> <<>>]

WordTables ==
  {[has_headers |-> TRUE, headers |-> <<"A", "B">>, has_rows |-> hr, rows |-> rs] :
      hr \in BOOLEAN, rs \in {<<>>, <<<<"1">>, <<"3", "4">>>>, <<<<"1", "2", "3">>>>}}
  \cup {[NoTable EXCEPT !.has_rows = TRUE, !.rows = <<<<"1">>>>]}

WordData ==
  {[has_title |-> ht, title |-> "T", has_sections |-> hs, sections |-> ss,
    has_content |-> hc, content_is_str |-> cs, content |-> "C",
    has_table |-> htb, table |-> tb] :
      ht \in BOOLEAN, hs \in BOOLEAN, ss \in SectionLists, hc \in BOOLEAN,
      cs \in BOOLEAN, htb \in BOOLEAN, tb \in WordTables \cup {NoTable}}

InitWord ==
  /\ users = Registered
  /\ chats = Created
  /\ messages = <<>>
  /\ files = <<>>
  /\ disk = {}
  /\ next_id = 1
  /\ llm = [raises |-> FALSE, text |-> AnalysisReply, payload |-> PlainPayload]
  /\ req = [r \in Requests |-> IdleReq]
  /\ \E d \in WordData :
       \* a key that is absent has no value
       /\ ~d.has_sections => d.sections = <<>>
       /\ ~d.has_content => d.content_is_str
       /\ ~d.has_table => d.table = NoTable
       /\ ~d.table.has_rows => d.table.rows = <<>>
       /\ call = [pc |-> "render", data |-> d,
                  result |-> [raised |-> FALSE, body |-> <<>>]]

\* line 972: the call send_message makes
render_word ==
  /\ call.pc = "render"
  /\ call' = [call EXCEPT !.pc = "done",
                          !.result = generate_word_from_data(call.data)]
  /\ UNCHANGED <<users, chats, messages, files, disk, next_id, llm, req>>

NextWord == render_word

SpecWord == InitWord /\ [][NextWord]_vars

\* the paragraphs of the body that carry the top-level content
TopParagraphs(body) ==
  {k \in 1..Len(body) : body[k] = Block("Normal", "C")}

\* C21 (as claimed): the top-level content is in the body, as one paragraph,
\* exactly when it is a string and the payload has no sections; with sections
\* the body is the title (if any), the sections in array order and the table
\* (if any), and nothing else.
C21_ContentOnlyWithoutSections ==
  (call.pc = "done" /\ ~call.result.raised)
  => LET data == call.data
         body == call.result.body
         title == IF data.has_title THEN <<Block("Title", data.title)>> ELSE <<>>
     IN  /\ Cardinality(TopParagraphs(body))
              = (IF data.has_content /\ data.content_is_str /\ ~data.has_sections
                 THEN 1 ELSE 0)
         /\ data.has_sections
            => body = title \o SectionsBlocks(data.sections, 1) \o TableBlocks(data)

\* ------------------------------------------- send_message: the context
CONTEXT_FILES == 10
CONTEXT_CHARS == 15000
HISTORY_CAP == 20
TRANSCRIPT_WINDOW == 10

\* The messages and files of one chat as the store holds them, in insertion
\* order. A message is its role, its content (the number of the utterance or
\* reply it carries) and its created_at; a file is its id and the characters
\* of its extracted_content.
\* line 875: sort('created_at', -1). The store fixes no order among equal
\* keys: it returns them in insertion order ("natural") or against it.
NewestOf(msgs, S, ties) ==
  CHOOSE i \in S : \A j \in S :
    \/ msgs[i].created_at > msgs[j].created_at
    \/ /\ msgs[i].created_at = msgs[j].created_at
       /\ IF ties = "natural" THEN i <= j ELSE i >= j

RECURSIVE SortNewestFirst(_, _, _, _)
SortNewestFirst(msgs, S, ties, limit) ==
  IF S = {} \/ limit = 0 THEN <<>>
  ELSE LET i == NewestOf(msgs, S, ties)
       IN  <<msgs[i]>> \o SortNewestFirst(msgs, S \ {i}, ties, limit - 1)

\* list.reverse()
Reverse(s) == [i \in 1..Len(s) |-> s[Len(s) + 1 - i]]

\* s[-k:]
Last(s, k) == Sub(s, IF Len(s) > k THEN Len(s) - k + 1 ELSE 1, Len(s))

\* lines 875-876: to_list(20) of the sorted messages, reversed
FetchMessages(msgs, ties) ==
  Reverse(SortNewestFirst(msgs, 1..Len(msgs), ties, HISTORY_CAP))

\* line 874: to_list(10)
FetchFiles(fs) == Sub(fs, 1, Min(Len(fs), CONTEXT_FILES))

\* lines 880-881: one block of the preamble per file
FileContext(fs) ==
  [k \in 1..Len(fs) |->
     [id |-> fs[k].id, text |-> Prefix(fs[k].extracted_content, CONTEXT_CHARS)]]

\* line 926
Label(role) == IF role = "user" THEN "User" ELSE "Assistant"

\* lines 924-929
Conversation(fetched, utterance) ==
  LET window == Last(fetched, TRANSCRIPT_WINDOW)
  IN  [k \in 1..Len(window) |->
         [label |-> Label(window[k].role), content |-> window[k].content]]
      \o <<[label |-> "User", content |-> utterance]>>

\* lines 862-929: the user message is stored, then files and messages are
\* fetched and the preamble and the transcript are built from them
BuildContext(stored, fs, utterance, now, ties) ==
  LET user_message == [role |-> "user", content |-> utterance, created_at |-> now]
      all == Append(stored, user_message)
  IN  [stored |-> all,
       preamble |-> FileContext(FetchFiles(fs)),
       transcript |-> Conversation(FetchMessages(all, ties), utterance)]

\* A chat after n messages, utterances and replies in turn. Each message has
\* the clock reading of its insert (lines 862, 1043); with a coarse clock two
\* messages stored in the same tick carry the same created_at.
StoredMessages(n, clock) ==
  [i \in 1..n |-> [role |-> IF i % 2 = 1 THEN "user" ELSE "assistant",
                   content |-> i,
                   created_at |-> IF clock = "fine" THEN i ELSE (i + 1) \div 2]]

StoredFiles(k, len) ==
  [j \in 1..k |-> [id |-> j, extracted_content |-> Chars(len)]]

StoredCounts == {0, 1, 4, 9, 10, 15, 19, 20, 23}
FileCounts == {0, 1, 9, 10, 11, 12}
ContentLens == {0, 100, 15000, 15001}

InitContext ==
  /\ users = Registered
  /\ chats = Created
  /\ messages = <<>>
  /\ files = <<>>
  /\ disk = {}
  /\ next_id = 1
  /\ llm = [raises |-> FALSE, text |-> AnalysisReply, payload |-> PlainPayload]
  /\ req = [r \in Requests |-> IdleReq]
  /\ \E n \in StoredCounts, k \in FileCounts, len \in ContentLens,
        ties \in {"natural", "reversed"}, clock \in {"fine", "coarse"} :
       call = [pc |-> "build", stored |-> StoredMessages(n, clock),
               files |-> StoredFiles(k, len), utterance |-> n + 1,
               now |-> n + 1, ties |-> ties,
               result |-> [stored |-> <<>>, preamble |-> <<>>, transcript |-> <<>>]]

build_context ==
  /\ call.pc = "build"
  /\ call' = [call EXCEPT !.pc = "done",
                !.result = BuildContext(call.stored, call.files, call.utterance,
                                        call.now, call.ties)]
  /\ UNCHANGED <<users, chats, messages, files, disk, next_id, llm, req>>

NextContext == build_context

SpecContext == InitContext /\ [][NextContext]_vars

\* the line of a message
LineOf(m) == [label |-> Label(m.role), content |-> m.content]

\* C22 (as claimed): the preamble has a block for each of the chat's first 10
\* files and no other, each with the first 15000 characters of the file's
\* extracted content; the transcript is the lines of the chat's 20 most
\* recent earlier messages (all of them when there are fewer), oldest first,
\* followed by the new utterance as the final line.
C22_ContextBounded ==
  call.pc = "done"
  => LET preamble == call.result.preamble
         transcript == call.result.transcript
         earlier == Last(call.stored, HISTORY_CAP)
     IN  /\ Len(preamble) = Min(Len(call.files), 10)
         /\ \A k \in 1..Len(preamble) :
              /\ preamble[k].id = call.files[k].id
              /\ preamble[k].text.first = 1
              /\ preamble[k].text.last
                   = Min(call.files[k].extracted_content.last, 15000)
         /\ transcript = [k \in 1..Len(earlier) |-> LineOf(earlier[k])]
                         \o <<[label |-> "User", content |-> call.utterance]>>

\* the lines of the transcript that carry the new utterance
UtteranceLines(transcript) ==
  {k \in 1..Len(transcript) :
     transcript[k] = [label |-> "User", content |-> call.utterance]}

\* C27 (as claimed): the new utterance is exactly one line of the transcript,
\* the final one; no line of the window is the message stored for this
\* request.
C27_UtteranceOnce ==
  call.pc = "done"
  => UtteranceLines(call.result.transcript) = {Len(call.result.transcript)}

\* --------------------------------------- send_message, requests overlapping
\* The handlers of the requests of one user on one chat run together: a step
\* of any of them can follow a step of any other. The model answers with an
\* analysis or with a spreadsheet action.
RaceOracles ==
  {[raises |-> FALSE, text |-> AnalysisReply, payload |-> PlainPayload],
   [raises |-> FALSE, text |-> WholeReply, payload |-> PlainPayload]}

InitRace ==
  /\ users = Registered
  /\ chats = Created
  /\ messages = <<>>
  /\ files = <<>>
  /\ disk = {}
  /\ next_id = 1
  /\ llm \in RaceOracles
  /\ req = [r \in Requests |-> IdleReq]
  /\ call = IdleCall

\* no request has arrived
NoneStarted == \A r \in Requests : req[r].pc = "idle"

\* the requests are numbered in the order of their arrival
Arrived(r) == \A q \in Requests : q < r => req[q].pc # "idle"

NextRace ==
  \/ \E r \in Requests : Arrived(r) /\ get_current_user(r, "u_user", "c_user")
  \/ \E r \in Requests : find_chat(r)
  \/ \E r \in Requests : insert_user_msg(r)
  \/ \E r \in Requests : find_files(r)
  \/ \E r \in Requests : find_messages(r)
  \/ \E r \in Requests : llm_call(r)
  \/ \E r \in Requests : insert_file(r)
  \/ \E r \in Requests : deduct_find(r)
  \/ \E r \in Requests : deduct_update(r)
  \/ \E r \in Requests : insert_ai(r)
  \/ \E r \in Requests : update_chat(r)
  \/ \E b \in AdminBalances : NoneStarted /\ admin_update_user("u_user", b)

SpecRace == InitRace /\ [][NextRace]_vars

RECURSIVE SumDeducted(_)
SumDeducted(r) == IF r = 0 THEN 0 ELSE req[r].deducted + SumDeducted(r - 1)

\* C23 (as claimed): whatever the interleaving of the requests of a user who
\* is not exempt, the balance is never negative and the requests together
\* deduct no more than the balance the user had when the first of them
\* arrived.
C23_ChargesAreAtomic ==
  /\ users["u_user"].balance >= 0
  /\ req[1].pc # "idle" => SumDeducted(MaxReq) <= req[1].balance

\* C24 (as claimed): a request of a user who is not exempt deducts more than
\* the analysis cost 5 only if it inserted a file record; a request that
\* returned without one resolved the cost 5 and deducted 5.
C24_ChargedAboveFiveOnlyWithFile ==
  \A r \in Requests :
    (Done(r) /\ ~req[r].user_is_admin)
    => /\ req[r].deducted > TOKEN_COSTS.analyze => FilesOf(r) # {}
       /\ (req[r].status = 200 /\ FilesOf(r) = {})
          => /\ req[r].tokens_used = TOKEN_COSTS.analyze
             /\ req[r].deducted = TOKEN_COSTS.analyze

\* C25 (as claimed): an assistant message with a file_id has a file record of
\* that id in its chat, and has a file_id exactly when it has a file_name.
C25_MessageNamesItsFile ==
  \A i \in 1..Len(messages) :
    messages[i].role = "assistant"
    => /\ messages[i].file_id # NoId
          => \E k \in 1..Len(files) :
               /\ files[k].id = messages[i].file_id
               /\ files[k].chat_id = messages[i].chat_id
       /\ messages[i].file_id # NoId <=> messages[i].file_name # None

\* the assistant message a request stored
ReplyOf(r) == messages[CHOOSE i \in MessagesOf(r, "assistant") : TRUE]

\* C26 (as claimed): the tokens_used stored on the assistant message of a
\* request of a user who is not exempt is the amount that request took from
\* the user's balance, also when deduct_tokens returned false.
C26_RecordedIsCharged ==
  \A r \in Requests :
    (~req[r].user_is_admin /\ MessagesOf(r, "assistant") # {})
    => ReplyOf(r).tokens_used = req[r].deducted

\* ------------------------------- send_message in a chat with uploaded files
\* A user uploads files to a chat, some of them are lost from the upload
\* directory, and then the user's requests are served one after the other.
\* The model answers with a known action that asks for the template or not.
TemplateUploads ==
  {[BlankFile EXCEPT !.ext = "pptx"],
   [BlankFile EXCEPT !.ext = "xlsx", !.sheets = <<1>>]}

TemplateOracles ==
  {[raises |-> FALSE, text |-> WholeReply,
    payload |-> [Object(a, FALSE, "empty_dict") EXCEPT !.use_template = ut]] :
      a \in KnownActions, ut \in BOOLEAN}

InitTemplate ==
  /\ users = Registered
  /\ chats = Created
  /\ messages = <<>>
  /\ files = <<>>
  /\ disk = {}
  /\ next_id = 1
  /\ llm \in TemplateOracles
  /\ req = [r \in Requests |-> IdleReq]
  /\ call = IdleCall

NextTemplate ==
  \/ \E f \in TemplateUploads : NoneStarted /\ upload_file("u_user", "c_user", f)
  \/ \E id \in 1..MaxUploads : NoneStarted /\ lose_file(id)
  \/ \E r \in Requests :
       Quiet /\ InTurn(r) /\ get_current_user(r, "u_user", "c_user")
  \/ \E r \in Requests : find_chat(r)
  \/ \E r \in Requests : insert_user_msg(r)
  \/ \E r \in Requests : find_files(r)
  \/ \E r \in Requests : find_messages(r)
  \/ \E r \in Requests : llm_call(r)
  \/ \E r \in Requests : insert_file(r)
  \/ \E r \in Requests : deduct_find(r)
  \/ \E r \in Requests : deduct_update(r)
  \/ \E r \in Requests : insert_ai(r)
  \/ \E r \in Requests : update_chat(r)

SpecTemplate == InitTemplate /\ [][NextTemplate]_vars

\* lines 979-981, 419-421: the renderer of request r opened the uploaded deck
\* as its base (no file comes or goes once a request has arrived)
UsedTemplate(r) ==
  /\ llm.payload.action = "create_pptx"
  /\ req[r].use_template
  /\ req[r].pptx_template_path # NoId
  /\ req[r].pptx_template_path \in disk

\* the stored reply has the note "(based on your template)"
HasTemplateNote(r) == Count(ReplyOf(r).content, "TEMPLATE_NOTE") > 0

\* C28 (as claimed): the confirmation of a created file has the template
\* note exactly when the action was a slide deck, use_template was true and
\* an uploaded slide deck of the chat was on disk and was opened as the base.
C28_NoteIffTemplateUsed ==
  \A r \in Requests :
    (MessagesOf(r, "assistant") # {} /\ FilesOf(r) # {})
    => (HasTemplateNote(r) <=> UsedTemplate(r))

\* C29: a deck made from scratch has as many slides as the payload has
\* entries, N; a deck made from a template of T slides has max(T, N); and
\* when N < T the template's slides after the N-th are in the output as they
\* were in the template.
C29_SlideCount ==
  call.pc = "done"
  => LET tp == call.template_prs
         out == call.result.prs
         T == Len(tp.slides)
         N == Len(call.slides_data)
     IN  /\ call.result.from_template <=> call.template = "present"
         /\ ~call.result.from_template => Len(out.slides) = N
         /\ call.result.from_template
            => /\ Len(out.slides) = (IF T > N THEN T ELSE N)
               /\ \A k \in (N + 1)..T : out.slides[k] = tp.slides[k]

C29_Witness ==
  /\ call.pc = "done" /\ call.template = "present"
  /\ Len(call.template_prs.slides) = 2
  /\ Len(call.slides_data) = 1
  /\ Len(call.result.prs.slides) = 2
  /\ call.result.prs.slides[1].filled_by = 0
  /\ call.result.prs.slides[2] = call.template_prs.slides[2]
  /\ call.result.prs.slides[2].shapes[1].text = <<"old", 0>>

\* ------------------------ delete_chat beside send_message and upload_file
\* The three handlers run together on the chat c_user of u_user, each from
\* one await to the next. call holds the locals of the delete_chat request
\* (pc, chat_id, found, status) and of the upload_file request (up_*).
IdleDelete ==
  [pc |-> "idle", chat_id |-> None, found |-> {}, status |-> 0,
   up_pc |-> "idle", up_chat |-> None, up_file |-> BlankFile, up_id |-> NoId,
   up_status |-> 0]

\* lines 769-771
delete_find_chat(u, c) ==
  /\ call.pc = "idle"
  /\ call' = IF OwnsChat(c, u)
             THEN [call EXCEPT !.pc = "find_files", !.chat_id = c]
             ELSE [call EXCEPT !.pc = "done", !.chat_id = c, !.status = 404]
  /\ UNCHANGED <<users, chats, messages, files, disk, next_id, llm, req>>

\* lines 773-779: the chat's files are read and removed from disk
delete_find_files ==
  /\ call.pc = "find_files"
  /\ LET found == {files[i].id : i \in {k \in 1..Len(files) :
                                         files[k].chat_id = call.chat_id}}
     IN  /\ disk' = disk \ found
         /\ call' = [call EXCEPT !.pc = "delete_files", !.found = found]
  /\ UNCHANGED <<users, chats, messages, files, next_id, llm, req>>

\* line 781
delete_files ==
  /\ call.pc = "delete_files"
  /\ files' = SelectSeq(files, LAMBDA f : f.chat_id # call.chat_id)
  /\ call' = [call EXCEPT !.pc = "delete_messages"]
  /\ UNCHANGED <<users, chats, messages, disk, next_id, llm, req>>

\* line 782
delete_messages ==
  /\ call.pc = "delete_messages"
  /\ messages' = SelectSeq(messages, LAMBDA m : m.chat_id # call.chat_id)
  /\ call' = [call EXCEPT !.pc = "delete_chat"]
  /\ UNCHANGED <<users, chats, files, disk, next_id, llm, req>>

\* lines 783-785: the chat document goes and the handler returns
delete_chat ==
  /\ call.pc = "delete_chat"
  /\ chats' = [c \in DOMAIN chats \ {call.chat_id} |-> chats[c]]
  /\ call' = [call EXCEPT !.pc = "done", !.status = 200]
  /\ UNCHANGED <<users, messages, files, disk, next_id, llm, req>>

\* lines 791-806: the chat is looked up; then the type is checked, the bytes
\* are written and the content is extracted without an await
upload_find_chat(u, c, f) ==
  /\ call.up_pc = "idle"
  /\ IF ~OwnsChat(c, u)
     THEN /\ call' = [call EXCEPT !.up_pc = "done", !.up_chat = c,
                                  !.up_file = f, !.up_status = 404]
          /\ UNCHANGED <<disk, next_id>>
     ELSE IF get_file_type(f.ext) \notin AllowedTypes
     THEN /\ call' = [call EXCEPT !.up_pc = "done", !.up_chat = c,
                                  !.up_file = f, !.up_status = 400]
          /\ UNCHANGED <<disk, next_id>>
     ELSE /\ disk' = disk \cup {next_id}
          /\ next_id' = next_id + 1
          /\ call' = IF extract_file_content(f, get_file_type(f.ext)).raised
                     THEN [call EXCEPT !.up_pc = "done", !.up_chat = c,
                                       !.up_file = f, !.up_id = next_id,
                                       !.up_status = 500]
                     ELSE [call EXCEPT !.up_pc = "insert_file", !.up_chat = c,
                                       !.up_file = f, !.up_id = next_id]
  /\ UNCHANGED <<users, chats, messages, files, llm, req>>

\* lines 808-820
upload_insert_file ==
  /\ call.up_pc = "insert_file"
  /\ files' = Append(files,
       [id |-> call.up_id, chat_id |-> call.up_chat, user_id |-> "u_user",
        filename |-> call.up_file.ext,
        file_type |-> get_file_type(call.up_file.ext),
        is_generated |-> FALSE, req |-> 0])
  /\ call' = [call EXCEPT !.up_pc = "insert_message"]
  /\ UNCHANGED <<users, chats, messages, disk, next_id, llm, req>>

\* lines 822-832
upload_insert_message ==
  /\ call.up_pc = "insert_message"
  /\ messages' = Append(messages,
       [chat_id |-> call.up_chat, role |-> "user", content |-> <<"UPLOADED">>,
        file_id |-> call.up_id, file_name |-> call.up_file.ext,
        tokens_used |-> NoTokens, req |-> 0])
  /\ call' = [call EXCEPT !.up_pc = "count"]
  /\ UNCHANGED <<users, chats, files, disk, next_id, llm, req>>

\* line 834: count_documents; either branch that follows sets updated_at
upload_count ==
  /\ call.up_pc = "count"
  /\ call' = [call EXCEPT !.up_pc = "update_chat"]
  /\ UNCHANGED <<users, chats, messages, files, disk, next_id, llm, req>>

\* lines 835-838: update_one on the chat's id, no change if it is gone
upload_update_chat ==
  /\ call.up_pc = "update_chat"
  /\ chats' = [c \in DOMAIN chats |->
                 IF c = call.up_chat
                 THEN [chats[c] EXCEPT !.updated_at = call.up_id] ELSE chats[c]]
  /\ call' = [call EXCEPT !.up_pc = "done", !.up_status = 200]
  /\ UNCHANGED <<users, messages, files, disk, next_id, llm, req>>

InitDelete ==
  /\ users = Registered
  /\ chats = Created
  /\ messages = <<>>
  /\ files = <<>>
  /\ disk = {}
  /\ next_id = 1
  /\ llm = [raises |-> FALSE, text |-> WholeReply, payload |-> PlainPayload]
  /\ req = [r \in Requests |-> IdleReq]
  /\ call = IdleDelete

\* The user's messages are sent one after the other; the deletion and the
\* upload overlap them and each other.
NextDelete ==
  \/ \E r \in Requests :
       Quiet /\ InTurn(r) /\ get_current_user(r, "u_user", "c_user")
  \/ \E r \in Requests : find_chat(r)
  \/ \E r \in Requests : insert_user_msg(r)
  \/ \E r \in Requests : find_files(r)
  \/ \E r \in Requests : find_messages(r)
  \/ \E r \in Requests : llm_call(r)
  \/ \E r \in Requests : insert_file(r)
  \/ \E r \in Requests : deduct_find(r)
  \/ \E r \in Requests : deduct_update(r)
  \/ \E r \in Requests : insert_ai(r)
  \/ \E r \in Requests : update_chat(r)
  \/ delete_find_chat("u_user", "c_user")
  \/ delete_find_files
  \/ delete_files
  \/ delete_messages
  \/ delete_chat
  \/ upload_find_chat("u_user", "c_user", [BlankFile EXCEPT !.ext = "pptx"])
  \/ upload_insert_file
  \/ upload_insert_message
  \/ upload_count
  \/ upload_update_chat

SpecDelete == InitDelete /\ [][NextDelete]_vars

\* C30 (as claimed): once delete_chat has returned for a chat, no message
\* record and no file record names that chat, whatever send_message and
\* upload_file requests on it were in flight.
C30_NothingLeftOfDeletedChat ==
  (call.pc = "done" /\ call.status = 200)
  => /\ \A i \in 1..Len(messages) : messages[i].chat_id # call.chat_id
     /\ \A i \in 1..Len(files) : files[i].chat_id # call.chat_id

====
